---- MODULE Spec2Model ----
(***************************************************************************)
(* PlayrunAddict: the playlist -> job -> entry pipeline of AudioProcessor  *)
(* (src/lib/audio_processor.py; src/main.py carries the same code).        *)
(*                                                                         *)
(* Scheduling: one asyncio event loop.  A coroutine runs without           *)
(* interruption from one real suspension point to the next.  The variable  *)
(* `running` names the job coroutine that holds the loop between two of    *)
(* its statements; every other action needs running = 0.  Calls that are   *)
(* declared async but only make blocking calls (Drive .execute(),          *)
(* subprocess.run, smtplib) do not suspend.                                *)
(***************************************************************************)
EXTENDS Integers, Sequences, FiniteSets, TLC

VARIABLES
    processed_files,   \* AudioProcessor.processed_files: the dedup ledger
    jobs,              \* AudioProcessor.jobs: job id -> ProcessingJob
    jobpc,             \* job id -> position of its process_m3u8_file task, and the
                       \* exception it is handling
    tasks,             \* job id -> sequence of entry tasks (process_audio_file)
    doneOrder,         \* job id -> ordinals of the entry tasks, in completion order
    stampWrites,       \* job id -> number of assignments to completed_at
    running,           \* job id whose coroutine holds the event loop, 0 if none
    webhooks,          \* handle_drive_notification calls waiting on request.body()
    triggers,          \* triggers received so far (webhook, poll, manual)
    listed,            \* file ids some files().list() answer has contained
    skipped,           \* the ledger test of line 213 has skipped a listed file
    playrun_token,     \* AudioProcessor.playrun_token is loaded
    notification,      \* the last send_notification call: its job and what became of the message
    m3u8_content,      \* parse_m3u8 on its own: the playlist text it is given
    parse_result,      \* ... and what the call returned or raised
    entry_duration,    \* process_audio_file line 329 on its own: entry['duration']
    job_speed,         \* ... the speed argument
    result_new_duration, \* ... and the new_duration of the result
    rss_feed,          \* playrun_addict.xml in Drive: the items of the feed document
    prior_feed,        \* the items playrun_addict.xml had before the last synthesis
    feed_results,      \* the results handed to create_rss_xml
    merges,            \* feed syntheses done so far
    workflow,          \* the main workflow step by step: where it is, the next result
                       \* to upload, whether an upload has raised
    progress_data,     \* _update_episode_map on its own: the progress rows
    ep_map_before,     \* ... the episode map it is given
    ep_map,            \* ... the episode map, updated in place
    offsets_done,      \* ... the call has returned
    drive_notification, \* handle_drive_notification: the requests handled so far, the
                       \* X-Goog-Channel-Token of the last one and the answer to it
    init_result,       \* initialize: not run, returned or raised
    startup,           \* ... what it met: credentials, token file, WEBHOOK_URL, the
                       \* outcome of the Pub/Sub and of the webhook setup
    notification_channels, \* AudioProcessor.notification_channels: channels registered
    polling_tasks,     \* fallback_polling tasks created so far
    poll_pc,           \* where the fallback_polling task is
    checks,            \* checks fallback_polling has made, counted modulo ChecksMod
    backup_env,        \* add_listening_progress: what the call meets in Drive and in
                       \* the backup
    backup_call,       \* ... where the call is, its locals backup_file_path and
                       \* temp_dir (assigned or None), the exception it is raising
    backup_fs,         \* ... the downloaded backup file and the extraction directory
                       \* on disk
    device_response,   \* _poll_for_token: interval and expires_in of the device response
    token_poll         \* ... where the loop is, its interval, the seconds elapsed, the
                       \* requests sent, the last answer and the answers seen so far

pipelineVars == <<processed_files, jobs, jobpc, tasks, doneOrder, stampWrites, running,
                  webhooks, triggers, listed, skipped, playrun_token, notification>>
parseVars == <<m3u8_content, parse_result>>
durationVars == <<entry_duration, job_speed, result_new_duration>>
feedVars == <<rss_feed, prior_feed, feed_results, merges, workflow>>

offsetVars == <<progress_data, ep_map_before, ep_map, offsets_done>>
hookVars == <<drive_notification>>
initVars == <<init_result, startup, notification_channels, polling_tasks, poll_pc, checks>>
backupVars == <<backup_env, backup_call, backup_fs>>
deviceVars == <<device_response, token_poll>>
auxVars == <<hookVars, initVars, backupVars, deviceVars>>

vars == <<pipelineVars, parseVars, durationVars, feedVars, offsetVars, auxVars>>

----------------------------------------------------------------------------
(* Bounds *)

MaxTriggers == 2   \* triggers received over the process lifetime
MaxEntries == 2    \* metadata+locator pairs in the playlist of file 1

(* the playlist files that exist in Drive *)
FileIds == {1, 2}

(* one files().list() answer names no more files than there are *)
MaxListing == Cardinality(FileIds)

(* Config.DEFAULT_SPEED = 1.5, kept exact as SpeedNum / SpeedDen *)
SpeedNum == 3
SpeedDen == 2

----------------------------------------------------------------------------
(* Small helpers *)

RECURSIVE SeqsUpTo(_, _)
SeqsUpTo(S, n) ==
    IF n = 0 THEN {<<>>}
    ELSE LET shorter == SeqsUpTo(S, n - 1)
         IN  shorter \cup {Append(s, x) : s \in {t \in shorter : Len(t) = n - 1}, x \in S}

Range(s) == {s[i] : i \in 1..Len(s)}

(* Optional[str]: None, or a string kept as its sequence of pieces *)
None == [isNone |-> TRUE, text |-> <<>>]
Str(pieces) == [isNone |-> FALSE, text |-> pieces]

----------------------------------------------------------------------------
(* Playlist text.  A text is the sequence of its lines; a line is kept by  *)
(* the parts parse_m3u8 looks at.                                          *)

ExtInf(dur, title) == [kind |-> "extinf", dur |-> dur, title |-> title, text |-> <<>>]
Line(text) == [kind |-> "other", dur |-> <<>>, title |-> <<>>, text |-> text]
Locator(url) == Line(url)
Comment == Line(<<"#", "EXTM3U">>)
Blank == Line(<<>>)

(* str.strip(): the pieces without the leading and the trailing blanks *)
RECURSIVE lstrip(_)
lstrip(s) == IF s # <<>> /\ Head(s) = " " THEN lstrip(Tail(s)) ELSE s

RECURSIVE rstrip(_)
rstrip(s) ==
    IF s # <<>> /\ s[Len(s)] = " " THEN rstrip(SubSeq(s, 1, Len(s) - 1)) ELSE s

strip(s) == rstrip(lstrip(s))

(* line 296: `url and not url.startswith('#')`, url the stripped line *)
IsLocator(line) ==
    /\ line.kind = "other"
    /\ strip(line.text) # <<>>
    /\ Head(strip(line.text)) # "#"

Digits == {"0", "1", "2", "3", "4", "5", "6", "7", "8", "9"}

DigitVal(c) ==
    CASE c = "0" -> 0 [] c = "1" -> 1 [] c = "2" -> 2 [] c = "3" -> 3 [] c = "4" -> 4
      [] c = "5" -> 5 [] c = "6" -> 6 [] c = "7" -> 7 [] c = "8" -> 8 [] c = "9" -> 9

(* re.match(r'#EXTINF:([0-9.]+),(.+)', line) on the stripped line: the     *)
(* duration group is a non-empty run of digits and dots, the title group   *)
(* is non-empty (a title of blanks only is stripped away with the line).   *)
ExtInfMatches(line) ==
    /\ line.kind = "extinf"
    /\ Len(line.dur) >= 1
    /\ \A k \in 1..Len(line.dur) : line.dur[k] \in Digits \cup {"."}
    /\ strip(line.title) # <<>>

(* float(s) for s in [0-9.]+ : a ValueError unless s has at most one dot   *)
(* and at least one digit.                                                 *)
FloatRaises(dur) ==
    \/ Cardinality({k \in 1..Len(dur) : dur[k] = "."}) > 1
    \/ \A k \in 1..Len(dur) : dur[k] = "."

RECURSIVE DigitsValue(_)
DigitsValue(ds) ==
    IF ds = <<>> THEN 0
    ELSE 10 * DigitsValue(SubSeq(ds, 1, Len(ds) - 1)) + DigitVal(ds[Len(ds)])

RECURSIVE Pow10(_)
Pow10(n) == IF n = 0 THEN 1 ELSE 10 * Pow10(n - 1)

(* float(s) as the exact fraction num / den *)
FloatOf(dur) ==
    LET dots == {k \in 1..Len(dur) : dur[k] = "."}
        noDot == SelectSeq(dur, LAMBDA c : c # ".")
        frac == IF dots = {} THEN 0 ELSE Len(dur) - (CHOOSE k \in dots : TRUE)
    IN  [num |-> DigitsValue(noDot), den |-> Pow10(frac)]

(* parse_m3u8: the while loop from index i on, entries collected so far in *)
(* acc.  uuid4() is a fresh value: the pair <<seed, ordinal>>.             *)
RECURSIVE ParseFromPrepends(_, _, _, _)
ParseFromPrepends(lines, i, acc, seed) ==
    IF i > Len(lines) THEN [raised |-> FALSE, entries |-> acc]
    ELSE LET line == lines[i] IN
         IF ExtInfMatches(line)
         THEN IF FloatRaises(line.dur)
              THEN [raised |-> TRUE, entries |-> <<>>]
              ELSE IF i + 1 <= Len(lines) /\ IsLocator(lines[i + 1])
                   THEN ParseFromPrepends(lines, i + 2,
                                  <<[title |-> strip(line.title),
                                     duration |-> FloatOf(line.dur),
                                     url |-> strip(lines[i + 1].text),
                                     uuid |-> <<seed, Len(acc) + 1>>]>> \o acc,
                                  seed)
                   ELSE ParseFromPrepends(lines, i + 1, acc, seed)
         ELSE ParseFromPrepends(lines, i + 1, acc, seed)

RECURSIVE ParseFromSkipsNext(_, _, _, _)
ParseFromSkipsNext(lines, i, acc, seed) ==
    IF i > Len(lines) THEN [raised |-> FALSE, entries |-> acc]
    ELSE LET line == lines[i] IN
         IF ExtInfMatches(line)
         THEN IF FloatRaises(line.dur)
              THEN [raised |-> TRUE, entries |-> <<>>]
              ELSE IF i + 1 <= Len(lines) /\ IsLocator(lines[i + 1])
                   THEN ParseFromSkipsNext(lines, i + 2,
                                  Append(acc, [title |-> strip(line.title),
                                               duration |-> FloatOf(line.dur),
                                               url |-> strip(lines[i + 1].text),
                                               uuid |-> <<seed, Len(acc) + 1>>]),
                                  seed)
                   ELSE ParseFromSkipsNext(lines, i + 2, acc, seed)
         ELSE ParseFromSkipsNext(lines, i + 1, acc, seed)

RECURSIVE ParseFrom(_, _, _, _)
ParseFrom(lines, i, acc, seed) ==
    IF i > Len(lines) THEN [raised |-> FALSE, entries |-> acc]
    ELSE LET line == lines[i] IN
         IF ExtInfMatches(line)
         THEN IF FloatRaises(line.dur)
              THEN [raised |-> TRUE, entries |-> <<>>]
              ELSE IF i + 1 <= Len(lines) /\ IsLocator(lines[i + 1])
                   THEN ParseFrom(lines, i + 2,
                                  Append(acc, [title |-> strip(line.title),
                                               duration |-> FloatOf(line.dur),
                                               url |-> strip(lines[i + 1].text),
                                               uuid |-> <<seed, Len(acc) + 1>>]),
                                  seed)
                   ELSE ParseFrom(lines, i + 1, acc, seed)
         ELSE ParseFrom(lines, i + 1, acc, seed)

parse_m3u8(content, seed) == ParseFrom(content, 1, <<>>, seed)

----------------------------------------------------------------------------
(* What Drive can return for a playlist file *)

Title(k) == CASE k = 1 -> <<"A">> [] k = 2 -> <<"B">> [] OTHER -> <<"C">>
Dur(k) ==
    CASE k = 1 -> <<"1", "8", "0", ".", "0">>
      [] k = 2 -> <<"2", "4", "0", ".", "0">>
      [] OTHER -> <<"9", "0">>
Url(k) ==
    CASE k = 1 -> <<"http://x/a.mp3">> [] k = 2 -> <<"http://x/b.mp3">>
      [] OTHER -> <<"http://x/c.mp3">>

RECURSIVE Pairs(_)
Pairs(n) == IF n = 0 THEN <<>> ELSE Pairs(n - 1) \o <<ExtInf(Dur(n), Title(n)), Locator(Url(n))>>

(* "#EXTM3U", n metadata+locator pairs, "#EXT-X-ENDLIST" *)
Playlist(n) == <<Comment>> \o Pairs(n) \o <<Comment>>

(* File 1 can hold any of these texts.  File 2 is a playlist without any   *)
(* pair (or its download raises): its job runs beside the job of file 1    *)
(* and fails.                                                              *)
DriveContents(file_id) ==
    IF file_id # 1 THEN {Playlist(0)}
    ELSE
    {Playlist(n) : n \in 0..MaxEntries}
        \cup {<<Comment, ExtInf(<<"1", ".", "2", ".", "3">>, Title(1)), Locator(Url(1))>>,
              <<ExtInf(Dur(1), Title(1)), Comment, ExtInf(Dur(2), Title(2)), Locator(Url(2))>>}

----------------------------------------------------------------------------
(* check_for_new_m3u8_files: the for loop over one listing, from index k;  *)
(* st carries self.jobs and self.processed_files, and what the loop        *)
(* skipped.  A job id (uuid4) is the job's position in self.jobs.          *)

NewJob(file_id) ==
    [status |-> "pending", m3u8_file_id |-> file_id, completed_at |-> "None",
     error |-> None, processed_files |-> <<>>]

RECURSIVE CheckLoopNoLedgerTest(_, _, _)
CheckLoopNoLedgerTest(files, k, st) ==
    IF k > Len(files) THEN st
    ELSE CheckLoopNoLedgerTest(files, k + 1,
             [st EXCEPT !.jobs = Append(@, NewJob(files[k])),
                        !.processed_files = @ \cup {files[k]}])

RECURSIVE CheckLoopNoLedgerAdd(_, _, _)
CheckLoopNoLedgerAdd(files, k, st) ==
    IF k > Len(files) THEN st
    ELSE IF files[k] \in st.processed_files
         THEN CheckLoopNoLedgerAdd(files, k + 1, [st EXCEPT !.skipped = TRUE])
         ELSE CheckLoopNoLedgerAdd(files, k + 1,
                  [st EXCEPT !.jobs = Append(@, NewJob(files[k]))])

(* a ledger test that lets a playlist through again once its job has failed *)
RECURSIVE CheckLoopRetriesFailed(_, _, _)
CheckLoopRetriesFailed(files, k, st) ==
    IF k > Len(files) THEN st
    ELSE IF /\ files[k] \in st.processed_files
            /\ ~\E n \in 1..Len(st.jobs) :
                  st.jobs[n].m3u8_file_id = files[k] /\ st.jobs[n].status = "failed"
         THEN CheckLoopRetriesFailed(files, k + 1, [st EXCEPT !.skipped = TRUE])
         ELSE CheckLoopRetriesFailed(files, k + 1,
                  [st EXCEPT !.jobs = Append(@, NewJob(files[k])),
                             !.processed_files = @ \cup {files[k]}])

RECURSIVE CheckLoop(_, _, _)
CheckLoop(files, k, st) ==
    IF k > Len(files) THEN st
    ELSE IF files[k] \in st.processed_files
         THEN CheckLoop(files, k + 1, [st EXCEPT !.skipped = TRUE])
         ELSE CheckLoop(files, k + 1,
                  [st EXCEPT !.jobs = Append(@, NewJob(files[k])),
                             !.processed_files = @ \cup {files[k]}])

Scheduled == [pc |-> "scheduled", exc |-> <<>>]

(* One run of check_for_new_m3u8_files.  It has no suspension point: the   *)
(* listing is a blocking call, so the run is one step of the event loop.   *)
(* listing: the files files().list() returned, or that it raised.          *)
check_for_new_m3u8_files(listing) ==
    IF listing.raised
    THEN UNCHANGED <<processed_files, jobs, jobpc, tasks, doneOrder, stampWrites,
                     listed, skipped>>
    ELSE LET st == CheckLoop(listing.files, 1, [jobs |-> jobs, processed_files |-> processed_files,
                                         skipped |-> skipped])
             new == Len(st.jobs) - Len(jobs)
         IN  /\ jobs' = st.jobs
             /\ processed_files' = st.processed_files
             /\ skipped' = st.skipped
             /\ listed' = listed \cup Range(listing.files)
             /\ jobpc' = jobpc \o [n \in 1..new |-> Scheduled]
             /\ tasks' = tasks \o [n \in 1..new |-> <<>>]
             /\ doneOrder' = doneOrder \o [n \in 1..new |-> <<>>]
             /\ stampWrites' = stampWrites \o [n \in 1..new |-> 0]

Listings ==
    {[raised |-> TRUE, files |-> <<>>]}
        \cup {[raised |-> FALSE, files |-> fs] : fs \in SeqsUpTo(FileIds, MaxListing)}

WebhookSecret == "secret"
ChannelTokens == {"secret", "wrong"}

(* handle_drive_notification, up to `await request.body()` *)
WebhookArrive ==
    /\ running = 0
    /\ triggers < MaxTriggers
    /\ triggers' = triggers + 1
    /\ \E token \in ChannelTokens :
          webhooks' = IF token # WebhookSecret THEN webhooks ELSE webhooks + 1
    /\ UNCHANGED <<processed_files, jobs, jobpc, tasks, doneOrder, stampWrites, running,
                   listed, skipped, playrun_token, notification>>
    /\ UNCHANGED <<parseVars, durationVars, feedVars, offsetVars, auxVars>>

(* handle_drive_notification, from the resumption after request.body() *)
WebhookCheck ==
    /\ running = 0
    /\ webhooks > 0
    /\ webhooks' = webhooks - 1
    /\ \E listing \in Listings : check_for_new_m3u8_files(listing)
    /\ UNCHANGED <<running, triggers, playrun_token, notification,
                   parseVars, durationVars, feedVars, offsetVars, auxVars>>

(* one iteration of fallback_polling *)
PollCheck ==
    /\ running = 0
    /\ triggers < MaxTriggers
    /\ triggers' = triggers + 1
    /\ \E listing \in Listings : check_for_new_m3u8_files(listing)
    /\ UNCHANGED <<running, webhooks, playrun_token, notification,
                   parseVars, durationVars, feedVars, offsetVars, auxVars>>

(* POST /manual-check *)
ManualCheck ==
    /\ running = 0
    /\ triggers < MaxTriggers
    /\ triggers' = triggers + 1
    /\ \E listing \in Listings : check_for_new_m3u8_files(listing)
    /\ UNCHANGED <<running, webhooks, playrun_token, notification,
                   parseVars, durationVars, feedVars, offsetVars, auxVars>>

----------------------------------------------------------------------------
(* process_m3u8_file *)

StampVarsUnchanged == UNCHANGED <<processed_files, webhooks, triggers, listed, skipped,
                                  playrun_token, parseVars, durationVars, feedVars, offsetVars, auxVars>>

JobVarsUnchanged == StampVarsUnchanged /\ UNCHANGED notification

NewTask(entry) ==
    [entry |-> entry, pc |-> "created", raised |-> FALSE, exc |-> <<>>, ret |-> <<>>,
     temp_input |-> "none", temp_output |-> "none", returncode |-> -1,
     uploaded |-> FALSE]

(* a suspension between line 244 and the fan-out *)
JobBeginSuspends(j) ==
    /\ running = 0
    /\ jobpc[j].pc = "scheduled"
    /\ jobs' = [jobs EXCEPT ![j].status = "processing"]
    /\ jobpc' = [jobpc EXCEPT ![j].pc = "fetch"]
    /\ running' = 0
    /\ UNCHANGED <<tasks, doneOrder, stampWrites>>
    /\ JobVarsUnchanged

JobBeginKeepsPending(j) ==
    /\ running = 0
    /\ jobpc[j].pc = "scheduled"
    /\ jobpc' = [jobpc EXCEPT ![j].pc = "fetch"]
    /\ running' = j
    /\ UNCHANGED <<jobs, tasks, doneOrder, stampWrites>>
    /\ JobVarsUnchanged

(* the task created by check_for_new_m3u8_files gets the loop: line 244 *)
JobBegin(j) ==
    /\ running = 0
    /\ jobpc[j].pc = "scheduled"
    /\ jobs' = [jobs EXCEPT ![j].status = "processing"]
    /\ jobpc' = [jobpc EXCEPT ![j].pc = "fetch"]
    /\ running' = j
    /\ UNCHANGED <<tasks, doneOrder, stampWrites>>
    /\ JobVarsUnchanged

(* download_drive_file: the decoded text, or the exception it re-raises *)
DriveDownloads(file_id) ==
    {[raised |-> TRUE, content |-> <<>>]}
        \cup {[raised |-> FALSE, content |-> c] : c \in DriveContents(file_id)}

(* lines 246-255: download_drive_file (blocking), parse_m3u8, the fan-out, *)
(* and the suspension at asyncio.gather                                    *)
JobFetch(j) ==
    /\ running = j
    /\ jobpc[j].pc = "fetch"
    /\ \E dl \in DriveDownloads(jobs[j].m3u8_file_id) :
         LET parsed == parse_m3u8(dl.content, j)
             exc == IF dl.raised THEN <<"HttpError: download failed">>
                    ELSE IF parsed.raised THEN <<"could not convert string to float">>
                    ELSE IF parsed.entries = <<>>
                         THEN <<"No audio files found in M3U8 playlist">>
                    ELSE <<>>
         IN  IF exc # <<>>
             THEN /\ jobpc' = [jobpc EXCEPT ![j].pc = "except", ![j].exc = exc]
                  /\ UNCHANGED <<tasks, running>>
             ELSE /\ jobpc' = [jobpc EXCEPT ![j].pc = "gather"]
                  /\ tasks' = [tasks EXCEPT ![j] =
                                  [i \in 1..Len(parsed.entries) |-> NewTask(parsed.entries[i])]]
                  /\ running' = 0
    /\ UNCHANGED <<jobs, doneOrder, stampWrites>>
    /\ JobVarsUnchanged

(* asyncio.gather with return_exceptions=True: one slot per awaitable,     *)
(* in the order the awaitables were passed                                 *)
gatherByCompletion(j) ==
    [k \in 1..Len(tasks[j]) |-> tasks[j][doneOrder[j][k]]]

gather(j) ==
    [k \in 1..Len(tasks[j]) |-> tasks[j][k]]

(* '; '.join(errors) *)
RECURSIVE Join(_)
Join(errors) ==
    IF errors = <<>> THEN <<>>
    ELSE IF Len(errors) = 1 THEN errors[1]
    ELSE errors[1] \o <<"; ">> \o Join(Tail(errors))

(* lines 256-262: the enumerate loop over the gathered results, from       *)
(* index i (0-based as in the code, the slot is results[i + 1] here)       *)
RECURSIVE CollectNoOffset(_, _, _)
CollectNoOffset(results, i, acc) ==
    IF i >= Len(results) THEN acc
    ELSE IF results[i + 1].raised
         THEN CollectNoOffset(results, i + 1,
                  [acc EXCEPT !.errors =
                      Append(@, <<"File ", ToString(i), ": ">> \o results[i + 1].exc)])
         ELSE CollectNoOffset(results, i + 1,
                  [acc EXCEPT !.successful_results = @ \o results[i + 1].ret])

RECURSIVE CollectAbortOnError(_, _, _)
CollectAbortOnError(results, i, acc) ==
    IF i >= Len(results) THEN acc
    ELSE IF results[i + 1].raised
         THEN [successful_results |-> <<>>,
               errors |-> <<<<"File ", ToString(i + 1), ": ">> \o results[i + 1].exc>>]
         ELSE CollectAbortOnError(results, i + 1,
                  [acc EXCEPT !.successful_results = @ \o results[i + 1].ret])

RECURSIVE Collect(_, _, _)
Collect(results, i, acc) ==
    IF i >= Len(results) THEN acc
    ELSE IF results[i + 1].raised
         THEN Collect(results, i + 1,
                  [acc EXCEPT !.errors =
                      Append(@, <<"File ", ToString(i + 1), ": ">> \o results[i + 1].exc)])
         ELSE Collect(results, i + 1,
                  [acc EXCEPT !.successful_results = @ \o results[i + 1].ret])

(* lines 264-265: job.error is assigned only when some entry failed *)
AggregateErrorAlways(errors, old) == Str(<<"Some files failed: ">> \o Join(errors))

AggregateError(errors, old) ==
    IF errors # <<>> THEN Str(<<"Some files failed: ">> \o Join(errors)) ELSE old

(* the gather future resolves when every task has: no return on the first  *)
(* exception                                                               *)
FirstExceptionOrAllResolved(j) ==
    \/ \A i \in 1..Len(tasks[j]) : tasks[j][i].pc = "done"
    \/ \E i \in 1..Len(tasks[j]) : tasks[j][i].pc = "done" /\ tasks[j][i].raised

(* a join that resumes only when every task has returned a result *)
AllResolvedNoFailure(j) ==
    \A i \in 1..Len(tasks[j]) : tasks[j][i].pc = "done" /\ ~tasks[j][i].raised

AllResolved(j) == \A i \in 1..Len(tasks[j]) : tasks[j][i].pc = "done"

FinalStatusByErrors(successful_results, errors) ==
    IF errors # <<>> THEN "failed" ELSE "completed"

(* lines 263-268: status by the finalization rule *)
FinalStatus(successful_results, errors) ==
    IF errors # <<>>
    THEN IF successful_results # <<>> THEN "completed" ELSE "failed"
    ELSE "completed"

(* a suspension between the status assignment and line 269 *)
JobCollectSuspends(j) ==
    /\ running = 0
    /\ jobpc[j].pc = "gather"
    /\ AllResolved(j)
    /\ LET c == Collect(gather(j), 0, [successful_results |-> <<>>, errors |-> <<>>])
       IN  jobs' = [jobs EXCEPT
                       ![j].processed_files = c.successful_results,
                       ![j].error = AggregateError(c.errors, @),
                       ![j].status = FinalStatus(c.successful_results, c.errors)]
    /\ jobpc' = [jobpc EXCEPT ![j].pc = "stamp"]
    /\ running' = 0
    /\ UNCHANGED <<tasks, doneOrder, stampWrites>>
    /\ JobVarsUnchanged

(* gather resolves once every task is done; lines 256-268 *)
JobCollect(j) ==
    /\ running = 0
    /\ jobpc[j].pc = "gather"
    /\ AllResolved(j)
    /\ LET c == Collect(gather(j), 0, [successful_results |-> <<>>, errors |-> <<>>])
       IN  jobs' = [jobs EXCEPT
                       ![j].processed_files = c.successful_results,
                       ![j].error = AggregateError(c.errors, @),
                       ![j].status = FinalStatus(c.successful_results, c.errors)]
    /\ jobpc' = [jobpc EXCEPT ![j].pc = "stamp"]
    /\ running' = j
    /\ UNCHANGED <<tasks, doneOrder, stampWrites>>
    /\ JobVarsUnchanged

(* send_notification: what becomes of the message.  "skipped": the e-mail  *)
(* configuration is incomplete and the call returns at line 439; "sent":   *)
(* the SMTP conversation went through; "smtp_error": it raised, inside the *)
(* try/except Exception of lines 440-453.                                  *)
NotifyOutcomes == {"skipped", "sent", "smtp_error"}

NoNotification == [job |-> 0, outcome |-> "none"]

send_notification_unguarded(outcome) == outcome = "smtp_error"

send_notification_requires_config(outcome) == outcome = "skipped"

(* whether the call raises: never, it returns normally in every case *)
send_notification_raises(outcome) == FALSE

(* lines 269-275: completed_at, then send_notification (blocking SMTP).    *)
(* An exception out of send_notification would land in the handler of      *)
(* line 276.                                                               *)
JobStampWith(j, outcome) ==
    /\ running = j
    /\ jobpc[j].pc = "stamp"
    /\ jobs' = [jobs EXCEPT ![j].completed_at = "now"]
    /\ stampWrites' = [stampWrites EXCEPT ![j] = @ + 1]
    /\ IF send_notification_raises(outcome)
       THEN /\ jobpc' = [jobpc EXCEPT ![j].pc = "except",
                                       ![j].exc = <<"SMTPException">>]
            /\ UNCHANGED running
       ELSE /\ jobpc' = [jobpc EXCEPT ![j].pc = "done"]
            /\ running' = 0
    /\ UNCHANGED <<tasks, doneOrder>>
    /\ StampVarsUnchanged

JobStamp(j) ==
    \E outcome \in NotifyOutcomes : JobStampWith(j, outcome) /\ UNCHANGED notification

(* the handler of line 276 letting the exception out of the coroutine *)
JobExceptReraises(j) ==
    /\ running = j
    /\ jobpc[j].pc = "except"
    /\ jobpc' = [jobpc EXCEPT ![j].pc = "escaped"]
    /\ running' = 0
    /\ UNCHANGED <<jobs, tasks, doneOrder, stampWrites>>
    /\ JobVarsUnchanged

JobExceptKeepsError(j) ==
    /\ running = j
    /\ jobpc[j].pc = "except"
    /\ jobs' = [jobs EXCEPT ![j].status = "failed"]
    /\ jobpc' = [jobpc EXCEPT ![j].pc = "except_stamp"]
    /\ UNCHANGED <<tasks, doneOrder, stampWrites, running>>
    /\ JobVarsUnchanged

(* lines 276-278 *)
JobExcept(j) ==
    /\ running = j
    /\ jobpc[j].pc = "except"
    /\ jobs' = [jobs EXCEPT ![j].status = "failed", ![j].error = Str(jobpc[j].exc)]
    /\ jobpc' = [jobpc EXCEPT ![j].pc = "except_stamp"]
    /\ UNCHANGED <<tasks, doneOrder, stampWrites, running>>
    /\ JobVarsUnchanged

(* lines 279-281: completed_at, then send_notification.  An exception out *)
(* of send_notification here would leave the coroutine.                    *)
JobExceptStampWith(j, outcome) ==
    /\ running = j
    /\ jobpc[j].pc = "except_stamp"
    /\ jobs' = [jobs EXCEPT ![j].completed_at = "now"]
    /\ stampWrites' = [stampWrites EXCEPT ![j] = @ + 1]
    /\ jobpc' = [jobpc EXCEPT ![j].pc = IF send_notification_raises(outcome)
                                        THEN "escaped" ELSE "done"]
    /\ running' = 0
    /\ UNCHANGED <<tasks, doneOrder>>
    /\ StampVarsUnchanged

JobExceptStamp(j) ==
    \E outcome \in NotifyOutcomes : JobExceptStampWith(j, outcome) /\ UNCHANGED notification

----------------------------------------------------------------------------
(* process_audio_file: one entry task *)

TaskVarsUnchanged == UNCHANGED <<processed_files, jobs, jobpc, stampWrites, running,
                                 webhooks, triggers, listed, skipped, playrun_token,
                                 notification, parseVars, durationVars, feedVars, offsetVars, auxVars>>

(* line 329: int(duration / speed), duration and speed kept as exact       *)
(* fractions.  Neither is negative, so int() truncates downwards.          *)
IntOfQuotientRounds(duration, speed) ==
    (2 * duration.num * speed.den + duration.den * speed.num)
        \div (2 * duration.den * speed.num)

IntOfQuotient(duration, speed) ==
    (duration.num * speed.den) \div (duration.den * speed.num)

(* job.speed is Config.DEFAULT_SPEED: lines 222 and 253 *)
DEFAULT_SPEED == [num |-> SpeedNum, den |-> SpeedDen]

NewDuration(duration) == IntOfQuotient(duration, DEFAULT_SPEED)

(* the exception leaves process_audio_file through `except: raise`; both   *)
(* `with` blocks close their file, and delete=False keeps it on disk       *)
Raise(t, exc) == [t EXCEPT !.pc = "done", !.raised = TRUE, !.exc = exc]

(* lines 318-325: the task starts, creates temp_input and suspends in      *)
(* download_audio_file                                                     *)
TaskStart(j, i) ==
    /\ running = 0
    /\ tasks[j][i].pc = "created"
    /\ tasks' = [tasks EXCEPT ![j][i].pc = "download", ![j][i].temp_input = "exists"]
    /\ UNCHANGED doneOrder
    /\ TaskVarsUnchanged

(* What the outside world answers to one entry: the HTTP response to the   *)
(* download, ffmpeg's exit code, whether the Drive upload succeeds.  A step *)
(* that is not reached has no answer, written as its success value.  An    *)
(* aiohttp error (a connect timeout) leaves download_audio_file as the     *)
(* non-200 answer does, with another message.                              *)
EntryAnswers ==
    {[resp |-> "404", rc |-> 0, up |-> "ok"],
     [resp |-> "200", rc |-> 1, up |-> "ok"],
     [resp |-> "200", rc |-> 0, up |-> "raise"],
     [resp |-> "200", rc |-> 0, up |-> "ok"]}

(* lines 325-330: the download resolves; ffmpeg and the Drive upload are   *)
(* blocking calls; push_to_playrun raises at once without a token, else    *)
(* suspends in session.post.  returncode is result.returncode of the       *)
(* ffmpeg run, -1 while there has been none.                               *)
AfterDownloadIgnoresExit(t, resp, rc, up) ==
    IF resp = "404" THEN Raise(t, <<"Failed to download audio file: HTTP ", "404">>)
    ELSE LET t1 == [t EXCEPT !.temp_output = "exists", !.returncode = rc] IN
         IF up # "ok" THEN Raise(t1, <<"HttpError 403: upload">>)
         ELSE LET t2 == [t1 EXCEPT !.uploaded = TRUE] IN
              IF ~playrun_token THEN Raise(t2, <<"No Playrun token available">>)
              ELSE [t2 EXCEPT !.pc = "push"]

(* the token looked at before the upload *)
AfterDownloadTokenFirst(t, resp, rc, up) ==
    IF resp = "404" THEN Raise(t, <<"Failed to download audio file: HTTP ", "404">>)
    ELSE LET t1 == [t EXCEPT !.temp_output = "exists", !.returncode = rc] IN
         IF rc # 0 THEN Raise(t1, <<"FFmpeg error: ", "stderr">>)
         ELSE IF ~playrun_token THEN Raise(t1, <<"No Playrun token available">>)
         ELSE IF up # "ok" THEN Raise(t1, <<"HttpError 403: upload">>)
         ELSE [t1 EXCEPT !.uploaded = TRUE, !.pc = "push"]

AfterDownload(t, resp, rc, up) ==
    IF resp = "404" THEN Raise(t, <<"Failed to download audio file: HTTP ", "404">>)
    ELSE LET t1 == [t EXCEPT !.temp_output = "exists", !.returncode = rc] IN
         IF rc # 0 THEN Raise(t1, <<"FFmpeg error: ", "stderr">>)
         ELSE IF up # "ok" THEN Raise(t1, <<"HttpError 403: upload">>)
         ELSE LET t2 == [t1 EXCEPT !.uploaded = TRUE] IN
              IF ~playrun_token THEN Raise(t2, <<"No Playrun token available">>)
              ELSE [t2 EXCEPT !.pc = "push"]

DownloadDone(j, i) ==
    /\ running = 0
    /\ tasks[j][i].pc = "download"
    /\ \E a \in EntryAnswers :
         LET t == AfterDownload(tasks[j][i], a.resp, a.rc, a.up)
         IN  /\ tasks' = [tasks EXCEPT ![j][i] = t]
             /\ doneOrder' = IF t.pc = "done"
                             THEN [doneOrder EXCEPT ![j] = Append(@, i)]
                             ELSE doneOrder
    /\ TaskVarsUnchanged

PushStatuses == {200, 500}

(* lines 330-355: the push resolves; on 200 both temp files are unlinked   *)
(* and the result is returned                                              *)
AfterPush(t, status) ==
    IF status # 200
    THEN Raise(t, <<"Failed to push to Playrun: HTTP ", ToString(status), " - ", "body">>)
    ELSE [t EXCEPT !.pc = "done",
                   !.temp_input = "deleted",
                   !.temp_output = "deleted",
                   !.ret = <<[title |-> t.entry.title,
                              original_url |-> t.entry.url,
                              processed_url |-> t.entry.uuid,
                              original_duration |-> t.entry.duration,
                              new_duration |-> NewDuration(t.entry.duration),
                              uuid |-> t.entry.uuid]>>]

PushDone(j, i) ==
    /\ running = 0
    /\ tasks[j][i].pc = "push"
    /\ \E status \in PushStatuses :
         tasks' = [tasks EXCEPT ![j][i] = AfterPush(tasks[j][i], status)]
    /\ doneOrder' = [doneOrder EXCEPT ![j] = Append(@, i)]
    /\ TaskVarsUnchanged

----------------------------------------------------------------------------
(* The process *)

(* parse_m3u8 has not been called on its own *)
NotCalled == [called |-> FALSE, raised |-> FALSE, entries |-> <<>>]
ParseIdle == m3u8_content = <<>> /\ parse_result = NotCalled

(* line 329 has not been run on its own; -1 stands for "no result yet" *)
DurationIdle ==
    /\ entry_duration = [num |-> 0, den |-> 1]
    /\ job_speed = DEFAULT_SPEED
    /\ result_new_duration = -1

(* no feed synthesis *)
NoWorkflow == [pc |-> "idle", next |-> 0, upload_failed |-> FALSE]
FeedIdle ==
    /\ rss_feed = <<>> /\ prior_feed = <<>> /\ feed_results = <<>> /\ merges = 0
    /\ workflow = NoWorkflow

(* _update_episode_map has not been run on its own *)
EmptyDict == [x \in {} |-> <<>>]
OffsetIdle ==
    /\ progress_data = <<>>
    /\ ep_map_before = EmptyDict
    /\ ep_map = EmptyDict
    /\ offsets_done = FALSE

(* no webhook notification has been handled *)
NoRequest == [n |-> 0, signature |-> "none", response |-> "none"]
HookIdle == drive_notification = NoRequest

(* initialize has not run *)
NoStartup == [google |-> "none", token_file |-> "none", url |-> FALSE,
              pubsub |-> "none", hook |-> "none"]
StartupIdle ==
    /\ init_result = "none"
    /\ startup = NoStartup
    /\ notification_channels = 0
    /\ polling_tasks = 0
    /\ poll_pc = "none"
    /\ checks = 0

(* add_listening_progress has not been called *)
NoBackupEnv == [files |-> "none", download |-> "ok", zip |-> "valid", db |-> FALSE,
                query |-> "ok"]
NoBackupCall == [pc |-> "idle", backup_file_path |-> FALSE, temp_dir |-> FALSE, exc |-> <<>>]
NoBackupFiles == [file |-> "absent", dir |-> "absent"]
BackupIdle ==
    /\ backup_env = NoBackupEnv
    /\ backup_call = NoBackupCall
    /\ backup_fs = NoBackupFiles

(* _poll_for_token has not been called *)
NoDeviceResponse == [interval |-> 0, expires_in |-> 0]
NoTokenPoll == [pc |-> "idle", interval |-> 0, elapsed |-> 0, requests |-> 0,
                last |-> "none", seen |-> {}]
DeviceIdle ==
    /\ device_response = NoDeviceResponse
    /\ token_poll = NoTokenPoll

AuxIdle ==
    /\ HookIdle
    /\ StartupIdle
    /\ BackupIdle
    /\ DeviceIdle

(* initialize: setup_playrun_auth loads a token if the token file exists   *)
Init ==
    /\ ParseIdle
    /\ DurationIdle
    /\ FeedIdle
    /\ OffsetIdle
    /\ AuxIdle
    /\ processed_files = {}
    /\ jobs = <<>>
    /\ jobpc = <<>>
    /\ tasks = <<>>
    /\ doneOrder = <<>>
    /\ stampWrites = <<>>
    /\ running = 0
    /\ webhooks = 0
    /\ triggers = 0
    /\ listed = {}
    /\ skipped = FALSE
    /\ playrun_token \in BOOLEAN
    /\ notification = NoNotification

JobIds == 1..Len(jobs)

Next ==
    \/ WebhookArrive
    \/ WebhookCheck
    \/ PollCheck
    \/ ManualCheck
    \/ \E j \in JobIds : JobBegin(j)
    \/ \E j \in JobIds : JobFetch(j)
    \/ \E j \in JobIds : JobCollect(j)
    \/ \E j \in JobIds : JobStamp(j)
    \/ \E j \in JobIds : JobExcept(j)
    \/ \E j \in JobIds : JobExceptStamp(j)
    \/ \E j \in JobIds : \E i \in 1..Len(tasks[j]) : TaskStart(j, i)
    \/ \E j \in JobIds : \E i \in 1..Len(tasks[j]) : DownloadDone(j, i)
    \/ \E j \in JobIds : \E i \in 1..Len(tasks[j]) : PushDone(j, i)

Spec == Init /\ [][Next]_vars

----------------------------------------------------------------------------
(* parse_m3u8 on its own: it is given a playlist text and called once *)

MaxLines == 4   \* lines of a playlist text

(* the pipeline is not running *)
PipelineIdle ==
    /\ processed_files = {}
    /\ jobs = <<>>
    /\ jobpc = <<>>
    /\ tasks = <<>>
    /\ doneOrder = <<>>
    /\ stampWrites = <<>>
    /\ running = 0
    /\ webhooks = 0
    /\ triggers = 0
    /\ listed = {}
    /\ skipped = FALSE
    /\ playrun_token = FALSE
    /\ notification = NoNotification

(* The lines a playlist text is made of: metadata lines with a decimal     *)
(* duration (one with a padded title), with an alphabetic and with a       *)
(* negative duration, with the durations '1.2.3' and '.', locator lines    *)
(* (one padded), "#EXTM3U" and the empty line.                             *)
LineAlphabet ==
    {ExtInf(<<"1", "0">>, <<"A">>),
     ExtInf(<<"2", ".", "5">>, <<" ", "B">>),
     ExtInf(<<"a", "b">>, <<"C">>),
     ExtInf(<<"-", "5">>, <<"C">>),
     ExtInf(<<"1", ".", "2", ".", "3">>, <<"D">>),
     ExtInf(<<".">>, <<"D">>),
     Locator(<<"http://x/a.mp3">>),
     Locator(<<" ", "http://x/b.mp3", " ">>),
     Comment,
     Blank}

InitParse ==
    /\ PipelineIdle
    /\ DurationIdle
    /\ FeedIdle
    /\ OffsetIdle
    /\ AuxIdle
    /\ m3u8_content \in SeqsUpTo(LineAlphabet, MaxLines)
    /\ parse_result = NotCalled

(* entries = self.parse_m3u8(content) *)
Parse ==
    /\ ~parse_result.called
    /\ LET parsed == parse_m3u8(m3u8_content, 1)
       IN  parse_result' = [called |-> TRUE, raised |-> parsed.raised,
                            entries |-> parsed.entries]
    /\ UNCHANGED <<m3u8_content, pipelineVars, durationVars, feedVars, offsetVars, auxVars>>

NextParse == Parse

SpecParse == InitParse /\ [][NextParse]_vars

----------------------------------------------------------------------------
(* Line 329 of process_audio_file on its own: one entry duration, one      *)
(* speed, and the new_duration the result carries                          *)

MaxSeconds == 12   \* largest numerator of a drawn duration

(* durations in whole seconds and in tenths, and the 180.0 and 240.0 of    *)
(* the playlist of src/test_main_direct.py                                 *)
Durations ==
    {[num |-> n, den |-> d] : n \in 0..MaxSeconds, d \in {1, 10}}
        \cup {FloatOf(Dur(1)), FloatOf(Dur(2))}

(* speed factors 0.5, 1, 1.5 (the default), 2 and 1.1 *)
Speeds ==
    {[num |-> 1, den |-> 2], [num |-> 1, den |-> 1], DEFAULT_SPEED,
     [num |-> 2, den |-> 1], [num |-> 11, den |-> 10]}

InitDuration ==
    /\ PipelineIdle
    /\ ParseIdle
    /\ FeedIdle
    /\ OffsetIdle
    /\ AuxIdle
    /\ entry_duration \in Durations
    /\ job_speed \in Speeds
    /\ result_new_duration = -1

(* new_duration = int(duration / speed) *)
ComputeNewDuration ==
    /\ result_new_duration = -1
    /\ result_new_duration' = IntOfQuotient(entry_duration, job_speed)
    /\ UNCHANGED <<entry_duration, job_speed, pipelineVars, parseVars, feedVars, offsetVars, auxVars>>

NextDuration == ComputeNewDuration

SpecDuration == InitDuration /\ [][NextDuration]_vars

----------------------------------------------------------------------------
(* Feed synthesis: PodcastRSSProcessor.create_rss_xml, and the workflow of *)
(* src/test_main_direct.py that reads the feed in Drive and replaces it    *)

MaxResults == 2   \* results handed to one feed synthesis
MaxMerges == 2    \* feed syntheses in one behaviour

(* hash(title): one value per title within a process *)
HashOf(title) == <<"hash(">> \o title \o <<")">>

(* GoogleDrive.generate_download_url *)
generate_download_url(drive_id) ==
    <<"https://drive.usercontent.google.com/download?id=">> \o drive_id
        \o <<"&export=download&authuser=0&confirm=t">>

(* _add_item_to_channel: the item is appended to the channel.  A result    *)
(* without the key 'uuid' has uuid = None here, and gets the guid          *)
(* "episode-<hash of the title>".                                          *)
add_item_to_channel(channel, file_data) ==
    Append(channel,
           [title |-> file_data.title,
            guid |-> IF file_data.uuid.isNone
                     THEN <<"episode-">> \o HashOf(file_data.title)
                     ELSE file_data.uuid.text,
            originalduration |-> ToString(file_data.original_duration),
            url |-> generate_download_url(file_data.drive_file_id),
            length |-> ToString(file_data.new_duration)])

(* lines 84-85: the loop over processed_files, from index k *)
RECURSIVE AddItems(_, _, _)
AddItems(channel, processed_files_, k) ==
    IF k > Len(processed_files_) THEN channel
    ELSE AddItems(add_item_to_channel(channel, processed_files_[k]), processed_files_, k + 1)

(* create_rss_xml: a new channel (its metadata is the same in every call   *)
(* but for lastBuildDate, and is left out) with one item per result.  The  *)
(* function has no parameter for a prior document.                         *)
create_rss_xml(processed_files_) == AddItems(<<>>, processed_files_, 1)

(* MockGoogleDrive.upload_to_drive(temp_file, title + ".mp3") *)
UploadedId(title) == <<"uploaded_">> \o title \o <<"_id">>

(* a result as check_for_new_m3u8_files returns it in the workflow, after  *)
(* lines 188-196 have stored drive_file_id in it                           *)
FileData(title, uuid) ==
    [title |-> title, uuid |-> uuid, original_duration |-> 180, new_duration |-> 120,
     drive_file_id |-> UploadedId(title)]

FeedTitles == {<<"A">>, <<"B">>}
FeedUuids == {None, Str(<<"u1">>), Str(<<"u2">>)}

ResultSeqs ==
    SeqsUpTo({FileData(t, u) : t \in FeedTitles, u \in FeedUuids}, MaxResults)

(* what playrun_addict.xml can hold before: nothing, or the output of an   *)
(* earlier synthesis                                                       *)
PriorFeeds ==
    {<<>>,
     create_rss_xml(<<FileData(<<"X">>, Str(<<"u0">>))>>),
     create_rss_xml(<<FileData(<<"X">>, Str(<<"u1">>))>>)}

InitFeed ==
    /\ PipelineIdle
    /\ ParseIdle
    /\ DurationIdle
    /\ OffsetIdle
    /\ AuxIdle
    /\ rss_feed \in PriorFeeds
    /\ prior_feed = <<>>
    /\ feed_results \in ResultSeqs
    /\ merges = 0
    /\ workflow = NoWorkflow

(* mock_main lines 177-199: the feed in Drive is downloaded and its        *)
(* episode mapping extracted (the mapping is not used afterwards); with no *)
(* results the workflow returns; else create_rss_xml(results) is uploaded  *)
(* over the feed file.                                                     *)
SynthesizeFeed ==
    /\ merges < MaxMerges
    /\ feed_results # <<>>
    /\ prior_feed' = rss_feed
    /\ rss_feed' = create_rss_xml(feed_results)
    /\ merges' = merges + 1
    /\ UNCHANGED <<feed_results, workflow, pipelineVars, parseVars, durationVars, offsetVars, auxVars>>

NextFeed == SynthesizeFeed

SpecFeed == InitFeed /\ [][NextFeed]_vars

----------------------------------------------------------------------------
(* The process under the event loop's scheduling.  asyncio runs every      *)
(* coroutine that is ready: a job coroutine created by create_task (line   *)
(* 227) starts and runs on to its next suspension, an entry task created   *)
(* at lines 251-254 starts, a join whose tasks have all resolved resumes,  *)
(* and a webhook handler resumes after request.body().  Nothing obliges    *)
(* the outside world: a trigger need not arrive, and the code sets no      *)
(* bound on an entry's download, ffmpeg run (subprocess.run without        *)
(* timeout), upload or push, so DownloadDone and PushDone get no fairness. *)
LoopFairness ==
    /\ WF_vars(WebhookCheck)
    /\ WF_vars(\E j \in JobIds : JobBegin(j))
    /\ WF_vars(\E j \in JobIds : JobFetch(j))
    /\ WF_vars(\E j \in JobIds : JobCollect(j))
    /\ WF_vars(\E j \in JobIds : JobStamp(j))
    /\ WF_vars(\E j \in JobIds : JobExcept(j))
    /\ WF_vars(\E j \in JobIds : JobExceptStamp(j))
    /\ WF_vars(\E j \in JobIds : \E i \in 1..Len(tasks[j]) : TaskStart(j, i))

SpecFair == Init /\ [][Next]_vars /\ LoopFairness

----------------------------------------------------------------------------
(* process_audio_file call by call.  DownloadDone runs lines 325-330 from  *)
(* the resumption after the download to the next suspension as one step;   *)
(* here the blocking calls in between are entered and left in steps of     *)
(* their own.  Only session.get and session.post are awaited I/O;          *)
(* process_audio_with_ffmpeg calls subprocess.run and upload_to_drive      *)
(* calls files().create(...).execute(), which return to the caller, not    *)
(* to the event loop: while a task of job j is inside one of them, running *)
(* is j and no other coroutine is resumed.                                 *)

EntryVarsUnchanged == UNCHANGED <<processed_files, jobs, jobpc, stampWrites,
                                  webhooks, triggers, listed, skipped, playrun_token,
                                  notification, parseVars, durationVars, feedVars, offsetVars, auxVars>>

Resolved(j, i, t) ==
    doneOrder' = IF t.pc = "done" THEN [doneOrder EXCEPT ![j] = Append(@, i)]
                 ELSE doneOrder

(* the upload entered before the transform run *)
DownloadResolvesSkipsTransform(j, i) ==
    /\ running = 0
    /\ tasks[j][i].pc = "download"
    /\ \E resp \in {"200", "404"} :
         LET t == IF resp = "404" THEN AfterDownload(tasks[j][i], resp, 0, "ok")
                  ELSE [tasks[j][i] EXCEPT !.pc = "upload", !.temp_output = "exists"]
         IN  /\ tasks' = [tasks EXCEPT ![j][i] = t]
             /\ Resolved(j, i, t)
             /\ running' = IF t.pc = "upload" THEN j ELSE 0
    /\ EntryVarsUnchanged

(* lines 325-327 and 360-368: session.get resolves; on 200 the body is     *)
(* written, temp_output is created and subprocess.run is entered           *)
DownloadResolves(j, i) ==
    /\ running = 0
    /\ tasks[j][i].pc = "download"
    /\ \E resp \in {"200", "404"} :
         LET t == IF resp = "404" THEN AfterDownload(tasks[j][i], resp, 0, "ok")
                  ELSE [tasks[j][i] EXCEPT !.pc = "ffmpeg", !.temp_output = "exists"]
         IN  /\ tasks' = [tasks EXCEPT ![j][i] = t]
             /\ Resolved(j, i, t)
             /\ running' = IF t.pc = "ffmpeg" THEN j ELSE 0
    /\ EntryVarsUnchanged

(* lines 370-386: subprocess.run returns; a non-zero code raises, else     *)
(* upload_to_drive is entered at once                                      *)
FfmpegExits(j, i) ==
    /\ running = j
    /\ tasks[j][i].pc = "ffmpeg"
    /\ \E rc \in {0, 1} :
         LET t == IF rc # 0 THEN AfterDownload(tasks[j][i], "200", rc, "ok")
                  ELSE [tasks[j][i] EXCEPT !.pc = "upload", !.returncode = rc]
         IN  /\ tasks' = [tasks EXCEPT ![j][i] = t]
             /\ Resolved(j, i, t)
             /\ running' = IF t.pc = "upload" THEN j ELSE 0
    /\ EntryVarsUnchanged

(* lines 388-412 and 328-330: execute() returns or raises; then            *)
(* push_to_playrun raises at once without a token, else suspends           *)
UploadReturns(j, i) ==
    /\ running = j
    /\ tasks[j][i].pc = "upload"
    /\ \E up \in {"ok", "raise"} :
         LET t == AfterDownload(tasks[j][i], "200", 0, up)
         IN  /\ tasks' = [tasks EXCEPT ![j][i] = t]
             /\ Resolved(j, i, t)
    /\ running' = 0
    /\ EntryVarsUnchanged

NextBlocking ==
    \/ WebhookArrive
    \/ WebhookCheck
    \/ PollCheck
    \/ ManualCheck
    \/ \E j \in JobIds : JobBegin(j)
    \/ \E j \in JobIds : JobFetch(j)
    \/ \E j \in JobIds : JobCollect(j)
    \/ \E j \in JobIds : JobStamp(j)
    \/ \E j \in JobIds : JobExcept(j)
    \/ \E j \in JobIds : JobExceptStamp(j)
    \/ \E j \in JobIds : \E i \in 1..Len(tasks[j]) : TaskStart(j, i)
    \/ \E j \in JobIds : \E i \in 1..Len(tasks[j]) : DownloadResolves(j, i)
    \/ \E j \in JobIds : \E i \in 1..Len(tasks[j]) : FfmpegExits(j, i)
    \/ \E j \in JobIds : \E i \in 1..Len(tasks[j]) : UploadReturns(j, i)
    \/ \E j \in JobIds : \E i \in 1..Len(tasks[j]) : PushDone(j, i)

SpecBlocking == Init /\ [][NextBlocking]_vars

----------------------------------------------------------------------------
(* One job from its admission to its notification, with what became of the *)
(* message written down.  It starts where the first check has admitted one *)
(* playlist and leaves the triggers out.                                   *)

InitNotify ==
    /\ ParseIdle
    /\ DurationIdle
    /\ FeedIdle
    /\ OffsetIdle
    /\ AuxIdle
    /\ \E f \in FileIds :
         /\ processed_files = {f}
         /\ listed = {f}
         /\ jobs = <<NewJob(f)>>
    /\ jobpc = <<Scheduled>>
    /\ tasks = << <<>> >>
    /\ doneOrder = << <<>> >>
    /\ stampWrites = <<0>>
    /\ running = 0
    /\ webhooks = 0
    /\ triggers = 1
    /\ skipped = FALSE
    /\ playrun_token \in BOOLEAN
    /\ notification = NoNotification

NotifiedStamp(j) ==
    \E outcome \in NotifyOutcomes :
        /\ JobStampWith(j, outcome)
        /\ notification' = [job |-> j, outcome |-> outcome]

NotifiedExceptStamp(j) ==
    \E outcome \in NotifyOutcomes :
        /\ JobExceptStampWith(j, outcome)
        /\ notification' = [job |-> j, outcome |-> outcome]

NextNotify ==
    \/ \E j \in JobIds : JobBegin(j)
    \/ \E j \in JobIds : JobFetch(j)
    \/ \E j \in JobIds : JobCollect(j)
    \/ \E j \in JobIds : NotifiedStamp(j)
    \/ \E j \in JobIds : JobExcept(j)
    \/ \E j \in JobIds : NotifiedExceptStamp(j)
    \/ \E j \in JobIds : \E i \in 1..Len(tasks[j]) : TaskStart(j, i)
    \/ \E j \in JobIds : \E i \in 1..Len(tasks[j]) : DownloadDone(j, i)
    \/ \E j \in JobIds : \E i \in 1..Len(tasks[j]) : PushDone(j, i)

SpecNotify == InitNotify /\ [][NextNotify]_vars

----------------------------------------------------------------------------
(* PodcastAddictProcessor._update_episode_map on its own.  A dict is a     *)
(* function from its keys; a string is the sequence of its pieces.         *)

MaxRows == 2

(* d[k] = v *)
SetItem(d, k, v) == [x \in DOMAIN d \cup {k} |-> IF x = k THEN v ELSE d[x]]

RECURSIVE update_episode_map_by_episode(_, _, _)
update_episode_map_by_episode(progress_data_, k, m) ==
    IF k > Len(progress_data_) THEN m
    ELSE LET key == progress_data_[k].episode
             entry == IF key \in DOMAIN m THEN m[key] ELSE EmptyDict
         IN  update_episode_map_by_episode(progress_data_, k + 1,
                 SetItem(m, key, SetItem(entry, "offset", progress_data_[k].offset)))

(* lines 167-176: the loop over the rows from row k; setdefault(key, {})   *)
(* takes the entry of the key or makes an empty one, and ['offset'] =      *)
(* offset writes into it                                                   *)
RECURSIVE update_episode_map(_, _, _)
update_episode_map(progress_data_, k, m) ==
    IF k > Len(progress_data_) THEN m
    ELSE LET key == progress_data_[k].podcast \o <<" - ">> \o progress_data_[k].episode
             entry == IF key \in DOMAIN m THEN m[key] ELSE EmptyDict
         IN  update_episode_map(progress_data_, k + 1,
                 SetItem(m, key, SetItem(entry, "offset", progress_data_[k].offset)))

(* the rows _query_listening_progress returns: position_to_resume > 0 *)
ProgressRows ==
    [podcast : {<<"P">>, <<"Q">>}, episode : {<<"E1">>, <<"E2">>}, offset : {5, 9}]

(* the keys of an episode map: composite keys, a bare episode title, and a *)
(* key with another separator                                              *)
MapKeys ==
    {<<"P", " - ", "E1">>, <<"Q", " - ", "E2">>, <<"E1">>, <<"P", "-", "E1">>}

(* an entry as extract_episode_mapping builds it *)
MapEntry(key) ==
    [x \in {"download_url", "length", "original_duration"} |->
        IF x = "download_url" THEN <<"https://drive/">> \o key
        ELSE IF x = "length" THEN <<"120">> ELSE <<"180">>]

InitOffsets ==
    /\ PipelineIdle
    /\ ParseIdle
    /\ DurationIdle
    /\ FeedIdle
    /\ AuxIdle
    /\ progress_data \in SeqsUpTo(ProgressRows, MaxRows)
    /\ \E keys \in SUBSET MapKeys : ep_map_before = [key \in keys |-> MapEntry(key)]
    /\ ep_map = ep_map_before
    /\ offsets_done = FALSE

UpdateEpisodeMap ==
    /\ ~offsets_done
    /\ ep_map' = update_episode_map(progress_data, 1, ep_map)
    /\ offsets_done' = TRUE
    /\ UNCHANGED <<progress_data, ep_map_before,
                   pipelineVars, parseVars, durationVars, feedVars, auxVars>>

NextOffsets == UpdateEpisodeMap

SpecOffsets == InitOffsets /\ [][NextOffsets]_vars

----------------------------------------------------------------------------
(* The main workflow of src/test_main_direct.py step by step: the results  *)
(* are uploaded one by one, then the feed is generated and written.        *)

(* a result as check_for_new_m3u8_files returns it, before line 194 has    *)
(* stored a drive_file_id in it: <<>> stands for the missing key           *)
NewResult(title, uuid) == [FileData(title, uuid) EXCEPT !.drive_file_id = <<>>]

NewResultSeqs ==
    SeqsUpTo({NewResult(t, u) : t \in FeedTitles, u \in FeedUuids}, MaxResults)

InitWorkflow ==
    /\ PipelineIdle
    /\ ParseIdle
    /\ DurationIdle
    /\ OffsetIdle
    /\ AuxIdle
    /\ rss_feed \in PriorFeeds
    /\ prior_feed = <<>>
    /\ feed_results \in NewResultSeqs
    /\ merges = 0
    /\ workflow = [pc |-> "start", next |-> 0, upload_failed |-> FALSE]

WorkflowVarsUnchanged == UNCHANGED <<pipelineVars, parseVars, durationVars, offsetVars, auxVars>>

(* lines 177-185: the feed in Drive is downloaded, the results are taken,  *)
(* and the workflow returns when there are none                            *)
WorkflowStart ==
    /\ workflow.pc = "start"
    /\ prior_feed' = rss_feed
    /\ workflow' = IF feed_results = <<>>
                   THEN [workflow EXCEPT !.pc = "stopped"]
                   ELSE [workflow EXCEPT !.pc = "upload", !.next = 1]
    /\ UNCHANGED <<rss_feed, feed_results, merges>>
    /\ WorkflowVarsUnchanged

UploadResultContinues ==
    /\ workflow.pc = "upload"
    /\ workflow.next <= Len(feed_results)
    /\ \E answer \in {"ok", "raise"} :
         IF answer = "raise"
         THEN /\ workflow' = [workflow EXCEPT !.next = @ + 1, !.upload_failed = TRUE]
              /\ UNCHANGED feed_results
         ELSE /\ feed_results' =
                    [feed_results EXCEPT ![workflow.next].drive_file_id =
                        UploadedId(feed_results[workflow.next].title)]
              /\ workflow' = [workflow EXCEPT !.next = @ + 1]
    /\ UNCHANGED <<rss_feed, prior_feed, merges>>
    /\ WorkflowVarsUnchanged

(* lines 188-196: one turn of the loop; upload_to_drive returns the file   *)
(* id, which is stored in the result, or raises, and the workflow returns  *)
UploadResult ==
    /\ workflow.pc = "upload"
    /\ workflow.next <= Len(feed_results)
    /\ \E answer \in {"ok", "raise"} :
         IF answer = "raise"
         THEN /\ workflow' = [workflow EXCEPT !.pc = "stopped", !.upload_failed = TRUE]
              /\ UNCHANGED feed_results
         ELSE /\ feed_results' =
                    [feed_results EXCEPT ![workflow.next].drive_file_id =
                        UploadedId(feed_results[workflow.next].title)]
              /\ workflow' = [workflow EXCEPT !.next = @ + 1]
    /\ UNCHANGED <<rss_feed, prior_feed, merges>>
    /\ WorkflowVarsUnchanged

(* file_data['drive_file_id'] at podcast_rss_processor.py line 133 *)
create_rss_xml_raises(processed_files_) ==
    \E k \in 1..Len(processed_files_) : processed_files_[k].drive_file_id = <<>>

(* lines 198-199, after the loop: create_rss_xml(results), then            *)
(* upload_string_to_drive over the feed file, which may raise              *)
WriteFeed ==
    /\ workflow.pc = "upload"
    /\ workflow.next > Len(feed_results)
    /\ \E answer \in {"ok", "raise"} :
         IF create_rss_xml_raises(feed_results) \/ answer = "raise"
         THEN /\ workflow' = [workflow EXCEPT !.pc = "raised"]
              /\ UNCHANGED <<rss_feed, merges>>
         ELSE /\ workflow' = [workflow EXCEPT !.pc = "done"]
              /\ rss_feed' = create_rss_xml(feed_results)
              /\ merges' = merges + 1
    /\ UNCHANGED <<prior_feed, feed_results>>
    /\ WorkflowVarsUnchanged

NextWorkflow ==
    \/ WorkflowStart
    \/ UploadResult
    \/ WriteFeed

SpecWorkflow == InitWorkflow /\ [][NextWorkflow]_vars

----------------------------------------------------------------------------
(* The jobs of one check, from their admission to their end, when every    *)
(* entry task resolves: the state after the first check has run over a     *)
(* listing, the job and entry steps without further triggers, the event    *)
(* loop's scheduling, and every download and every push answered.          *)

InitLive ==
    /\ ParseIdle
    /\ DurationIdle
    /\ FeedIdle
    /\ OffsetIdle
    /\ AuxIdle
    /\ \E fs \in SeqsUpTo(FileIds, MaxListing) \ {<<>>} :
         LET st == CheckLoop(fs, 1, [jobs |-> <<>>, processed_files |-> {},
                                     skipped |-> FALSE])
         IN  /\ jobs = st.jobs
             /\ processed_files = st.processed_files
             /\ skipped = st.skipped
             /\ listed = Range(fs)
             /\ jobpc = [n \in 1..Len(st.jobs) |-> Scheduled]
             /\ tasks = [n \in 1..Len(st.jobs) |-> <<>>]
             /\ doneOrder = [n \in 1..Len(st.jobs) |-> <<>>]
             /\ stampWrites = [n \in 1..Len(st.jobs) |-> 0]
    /\ running = 0
    /\ webhooks = 0
    /\ triggers = 1
    /\ playrun_token \in BOOLEAN
    /\ notification = NoNotification

NextLive ==
    \/ \E j \in JobIds : JobBegin(j)
    \/ \E j \in JobIds : JobFetch(j)
    \/ \E j \in JobIds : JobCollect(j)
    \/ \E j \in JobIds : JobStamp(j)
    \/ \E j \in JobIds : JobExcept(j)
    \/ \E j \in JobIds : JobExceptStamp(j)
    \/ \E j \in JobIds : \E i \in 1..Len(tasks[j]) : TaskStart(j, i)
    \/ \E j \in JobIds : \E i \in 1..Len(tasks[j]) : DownloadDone(j, i)
    \/ \E j \in JobIds : \E i \in 1..Len(tasks[j]) : PushDone(j, i)

(* every entry task resolves: its download, transform run and upload end   *)
(* and its push is answered                                                *)
EntryFairness ==
    /\ WF_vars(\E j \in JobIds : \E i \in 1..Len(tasks[j]) : DownloadDone(j, i))
    /\ WF_vars(\E j \in JobIds : \E i \in 1..Len(tasks[j]) : PushDone(j, i))

SpecLive == InitLive /\ [][NextLive]_vars /\ LoopFairness /\ EntryFairness

----------------------------------------------------------------------------
(* The jobs of one check with process_audio_file taken call by call *)

NextSteps ==
    \/ \E j \in JobIds : JobBegin(j)
    \/ \E j \in JobIds : JobFetch(j)
    \/ \E j \in JobIds : JobCollect(j)
    \/ \E j \in JobIds : JobStamp(j)
    \/ \E j \in JobIds : JobExcept(j)
    \/ \E j \in JobIds : JobExceptStamp(j)
    \/ \E j \in JobIds : \E i \in 1..Len(tasks[j]) : TaskStart(j, i)
    \/ \E j \in JobIds : \E i \in 1..Len(tasks[j]) : DownloadResolves(j, i)
    \/ \E j \in JobIds : \E i \in 1..Len(tasks[j]) : FfmpegExits(j, i)
    \/ \E j \in JobIds : \E i \in 1..Len(tasks[j]) : UploadReturns(j, i)
    \/ \E j \in JobIds : \E i \in 1..Len(tasks[j]) : PushDone(j, i)

SpecSteps == InitLive /\ [][NextSteps]_vars

----------------------------------------------------------------------------
(* handle_drive_notification, request by request *)

HookOthersUnchanged == UNCHANGED <<parseVars, durationVars, feedVars, offsetVars, initVars,
                                   backupVars, deviceVars>>

(* the handler without the token test of line 189 *)
HandleNotificationAnyToken(token) ==
    /\ running = 0
    /\ triggers < MaxTriggers
    /\ triggers' = triggers + 1
    /\ webhooks' = webhooks + 1
    /\ drive_notification' = [drive_notification EXCEPT !.n = @ + 1, !.signature = token]
    /\ UNCHANGED <<processed_files, jobs, jobpc, tasks, doneOrder, stampWrites, running,
                   listed, skipped, playrun_token, notification>>
    /\ HookOthersUnchanged

(* A request with the given X-Goog-Channel-Token: the handler up to its    *)
(* first suspension.  A token other than the secret is answered at once    *)
(* with {"error": "Invalid signature"}; with the secret the handler goes   *)
(* on to `await request.body()`.                                           *)
HandleNotification(token) ==
    /\ running = 0
    /\ triggers < MaxTriggers
    /\ triggers' = triggers + 1
    /\ IF token # WebhookSecret
       THEN /\ webhooks' = webhooks
            /\ drive_notification' = [n |-> drive_notification.n + 1, signature |-> token,
                                      response |-> "error"]
       ELSE /\ webhooks' = webhooks + 1
            /\ drive_notification' = [drive_notification EXCEPT !.n = @ + 1,
                                                                !.signature = token]
    /\ UNCHANGED <<processed_files, jobs, jobpc, tasks, doneOrder, stampWrites, running,
                   listed, skipped, playrun_token, notification>>
    /\ HookOthersUnchanged

(* The handler from the resumption after request.body(): the check, which  *)
(* swallows what the listing raises, and the answer {"status": "processed"} *)
NotificationCheck ==
    /\ running = 0
    /\ webhooks > 0
    /\ webhooks' = webhooks - 1
    /\ \E listing \in Listings : check_for_new_m3u8_files(listing)
    /\ drive_notification' = [drive_notification EXCEPT !.response = "processed"]
    /\ UNCHANGED <<running, triggers, playrun_token, notification>>
    /\ HookOthersUnchanged

NextWebhook ==
    \/ \E token \in ChannelTokens : HandleNotification(token)
    \/ NotificationCheck
    \/ \E j \in JobIds : JobBegin(j)
    \/ \E j \in JobIds : JobFetch(j)

SpecWebhook == Init /\ [][NextWebhook]_vars

----------------------------------------------------------------------------
(* initialize and fallback_polling *)

ChecksMod == 3

StartupOthersUnchanged == UNCHANGED <<parseVars, durationVars, feedVars, offsetVars, hookVars,
                                      backupVars, deviceVars>>

(* What initialize can meet: default() or build() raising or not, the      *)
(* token file absent, holding a token or not parsing, WEBHOOK_URL set or   *)
(* not, create_pubsub_topic and setup_drive_webhook raising or not.        *)
Startups == [google : {"ok", "raised"}, token_file : {"absent", "valid", "corrupt"},
             url : BOOLEAN, pubsub : {"ok", "raised"}, hook : {"ok", "raised"}]

(* the except branch of line 113 creating no polling task *)
setup_push_notifications_no_fallback(url, pubsub, hook) ==
    IF pubsub = "raised" THEN [channels |-> 0, created |-> 0]
    ELSE IF url
         THEN IF hook = "raised" THEN [channels |-> 0, created |-> 0]
                                 ELSE [channels |-> 1, created |-> 0]
         ELSE [channels |-> 0, created |-> 1]

(* setup_push_notifications: the channels registered and the polling tasks *)
(* created.  The calls of the try block are blocking ones; what they raise *)
(* is caught at line 113.                                                  *)
setup_push_notifications(url, pubsub, hook) ==
    IF pubsub = "raised" THEN [channels |-> 0, created |-> 1]
    ELSE IF url
         THEN IF hook = "raised" THEN [channels |-> 0, created |-> 1]
                                 ELSE [channels |-> 1, created |-> 0]
         ELSE [channels |-> 0, created |-> 1]

(* initialize: setup_google_services, setup_playrun_auth and               *)
(* setup_push_notifications.  None of them suspends, so the call is one    *)
(* step of the event loop; what the first two raise leaves initialize.     *)
Initialize ==
    /\ init_result = "none"
    /\ \E s \in Startups :
         /\ startup' = s
         /\ IF s.google = "raised" \/ s.token_file = "corrupt"
            THEN /\ init_result' = "raised"
                 /\ UNCHANGED <<playrun_token, notification_channels, polling_tasks, poll_pc>>
            ELSE LET r == setup_push_notifications(s.url, s.pubsub, s.hook)
                 IN  /\ init_result' = "done"
                     /\ playrun_token' = (s.token_file = "valid")
                     /\ notification_channels' = notification_channels + r.channels
                     /\ polling_tasks' = polling_tasks + r.created
                     /\ poll_pc' = IF r.created > 0 THEN "ready" ELSE poll_pc
    /\ UNCHANGED <<processed_files, jobs, jobpc, tasks, doneOrder, stampWrites, running,
                   webhooks, triggers, listed, skipped, notification, checks>>
    /\ StartupOthersUnchanged

(* fallback_polling, lines 233-236: one check, whatever the listing does,  *)
(* up to the sleep                                                         *)
PollIterate ==
    /\ poll_pc = "ready"
    /\ running = 0
    /\ \E listing \in Listings : check_for_new_m3u8_files(listing)
    /\ checks' = (checks + 1) % ChecksMod
    /\ poll_pc' = "sleeping"
    /\ UNCHANGED <<running, webhooks, triggers, playrun_token, notification,
                   init_result, startup, notification_channels, polling_tasks>>
    /\ StartupOthersUnchanged

(* asyncio.sleep(Config.POLL_INTERVAL) is over *)
PollWake ==
    /\ poll_pc = "sleeping"
    /\ poll_pc' = "ready"
    /\ UNCHANGED <<pipelineVars, init_result, startup, notification_channels,
                   polling_tasks, checks>>
    /\ StartupOthersUnchanged

InitStartup ==
    /\ PipelineIdle
    /\ ParseIdle
    /\ DurationIdle
    /\ FeedIdle
    /\ OffsetIdle
    /\ AuxIdle

NextStartup ==
    \/ Initialize
    \/ PollIterate
    \/ PollWake

(* the sleep ends, and a task that is ready to run is run *)
PollFairness == WF_vars(PollIterate) /\ WF_vars(PollWake)

SpecStartup == InitStartup /\ [][NextStartup]_vars /\ PollFairness

----------------------------------------------------------------------------
(* add_listening_progress, statement by statement *)

BackupOthersUnchanged == UNCHANGED <<pipelineVars, parseVars, durationVars, feedVars, offsetVars,
                                     hookVars, initVars, deviceVars>>

(* What a call can meet: get_files finding a backup, finding none or       *)
(* raising, the download of its content raising or not, the content being  *)
(* a zip archive or not, the archive holding a .db file or not, the query  *)
(* raising or not.                                                         *)
BackupEnvs == [files : {"found", "none", "raised"}, download : {"ok", "raised"}, zip : {"valid", "bad"},
               db : BOOLEAN, query : {"ok", "raised"}]

(* an exception leaves the try block: on to the finally clause *)
BackupRaise(call, exc) == [call EXCEPT !.pc = "finally", !.exc = exc]

(* line 37, _download_latest_backup: get_files raising, or finding no      *)
(* file, raises before any file is made; otherwise the NamedTemporaryFile(delete=False) of line 82 is   *)
(* on disk before the content is downloaded and written, and its path      *)
(* reaches backup_file_path only when the function returns                 *)
BackupDownload ==
    /\ backup_call.pc = "start"
    /\ IF backup_env.files # "found"
       THEN /\ backup_call' = BackupRaise(backup_call,
                                  IF backup_env.files = "raised" THEN <<"get_files">>
                                  ELSE <<"No PodcastAddict backup files found in Google Drive">>)
            /\ UNCHANGED backup_fs
       ELSE /\ backup_fs' = [backup_fs EXCEPT !.file = "exists"]
            /\ backup_call' = IF backup_env.download = "raised"
                              THEN BackupRaise(backup_call, <<"download">>)
                              ELSE [backup_call EXCEPT !.pc = "extract",
                                                       !.backup_file_path = TRUE]
    /\ UNCHANGED backup_env
    /\ BackupOthersUnchanged

(* lines 40-45, _extract_backup and the removal of the downloaded file:    *)
(* mkdtemp() makes the directory, then BadZipFile becomes a ValueError     *)
(* that leaves _extract_backup, so temp_dir is not assigned and line 44 is *)
(* not reached                                                             *)
BackupExtract ==
    /\ backup_call.pc = "extract"
    /\ IF backup_env.zip = "bad"
       THEN /\ backup_fs' = [backup_fs EXCEPT !.dir = "exists"]
            /\ backup_call' = BackupRaise(backup_call, <<"Invalid zip file: ", "path">>)
       ELSE /\ backup_fs' = [file |-> IF backup_call.backup_file_path /\ backup_fs.file = "exists"
                                      THEN "absent" ELSE backup_fs.file,
                             dir |-> "exists"]
            /\ backup_call' = [backup_call EXCEPT !.pc = "find", !.temp_dir = TRUE]
    /\ UNCHANGED backup_env
    /\ BackupOthersUnchanged

(* line 48, _find_database_file *)
BackupFind ==
    /\ backup_call.pc = "find"
    /\ backup_call' = IF backup_env.db
                      THEN [backup_call EXCEPT !.pc = "query"]
                      ELSE BackupRaise(backup_call, <<"No .db file found in backup">>)
    /\ UNCHANGED <<backup_env, backup_fs>>
    /\ BackupOthersUnchanged

(* lines 51-55, _query_listening_progress, _update_episode_map and the     *)
(* return                                                                  *)
BackupQuery ==
    /\ backup_call.pc = "query"
    /\ backup_call' = IF backup_env.query = "ok"
                      THEN [backup_call EXCEPT !.pc = "finally"]
                      ELSE BackupRaise(backup_call, <<"sqlite3.Error">>)
    /\ UNCHANGED <<backup_env, backup_fs>>
    /\ BackupOthersUnchanged

(* lines 60-64, the finally clause: the directory is removed if temp_dir   *)
(* was assigned; then the call returns, or raises what it was raising      *)
BackupFinally ==
    /\ backup_call.pc = "finally"
    /\ backup_fs' = IF backup_call.temp_dir /\ backup_fs.dir = "exists"
                    THEN [backup_fs EXCEPT !.dir = "absent"]
                    ELSE backup_fs
    /\ backup_call' = [backup_call EXCEPT !.pc = IF backup_call.exc = <<>> THEN "returned"
                                                                            ELSE "raised"]
    /\ UNCHANGED backup_env
    /\ BackupOthersUnchanged

InitBackup ==
    /\ PipelineIdle
    /\ ParseIdle
    /\ DurationIdle
    /\ FeedIdle
    /\ OffsetIdle
    /\ HookIdle
    /\ StartupIdle
    /\ DeviceIdle
    /\ backup_env \in BackupEnvs
    /\ backup_call = [NoBackupCall EXCEPT !.pc = "start"]
    /\ backup_fs = NoBackupFiles

NextBackup ==
    \/ BackupDownload
    \/ BackupExtract
    \/ BackupFind
    \/ BackupQuery
    \/ BackupFinally

SpecBackup == InitBackup /\ [][NextBackup]_vars

----------------------------------------------------------------------------
(* DeviceCodeAuth._poll_for_token *)

MaxExpires == 8
SlowDownStep == 5

(* the device responses: interval and expires_in, in seconds *)
DeviceResponses == [interval : {1, 5}, expires_in : {3, MaxExpires}]

(* what a request to the token endpoint comes to: HTTP 200, a body with    *)
(* one of the errors the loop names or another one, or a request or a body *)
(* that raises ("failed")                                                  *)
Answers == {"200", "authorization_pending", "slow_down", "expired_token", "access_denied",
            "other", "failed"}
KeepPolling == {"authorization_pending", "slow_down"}

(* the seconds a request can take *)
Latencies == {0, 1}

DeviceOthersUnchanged == UNCHANGED <<pipelineVars, parseVars, durationVars, feedVars, offsetVars,
                                     hookVars, initVars, backupVars>>

(* the loop going on after an error it does not name *)
AfterAnswerKeepsPolling(p, answer) ==
    IF answer = "200" THEN [p EXCEPT !.pc = "returned"]
    ELSE IF answer = "authorization_pending" \/ answer = "other" THEN [p EXCEPT !.pc = "sleep"]
    ELSE IF answer = "slow_down"
         THEN [p EXCEPT !.pc = "sleep", !.interval = @ + SlowDownStep]
    ELSE [p EXCEPT !.pc = "raised"]

(* lines 191-215: what the loop does with the answer to its request *)
AfterAnswer(p, answer) ==
    IF answer = "200" THEN [p EXCEPT !.pc = "returned"]
    ELSE IF answer = "authorization_pending" THEN [p EXCEPT !.pc = "sleep"]
    ELSE IF answer = "slow_down"
         THEN [p EXCEPT !.pc = "sleep", !.interval = @ + SlowDownStep]
    ELSE [p EXCEPT !.pc = "raised"]

(* lines 187-190, the head of the loop: TimeoutError if more than          *)
(* expires_in seconds have gone by, else the request is sent               *)
PollHead ==
    /\ token_poll.pc = "loop"
    /\ token_poll' = IF token_poll.elapsed > device_response.expires_in
                     THEN [token_poll EXCEPT !.pc = "timeout"]
                     ELSE [token_poll EXCEPT !.pc = "request", !.requests = @ + 1]
    /\ UNCHANGED device_response
    /\ DeviceOthersUnchanged

(* the request is answered, or fails *)
PollAnswer ==
    /\ token_poll.pc = "request"
    /\ \E answer \in Answers, latency \in Latencies :
          token_poll' = AfterAnswer([token_poll EXCEPT !.elapsed = @ + latency,
                                                       !.last = answer,
                                                       !.seen = @ \cup {answer}], answer)
    /\ UNCHANGED device_response
    /\ DeviceOthersUnchanged

(* line 218: asyncio.sleep(interval) is over *)
PollSleep ==
    /\ token_poll.pc = "sleep"
    /\ token_poll' = [token_poll EXCEPT !.pc = "loop", !.elapsed = @ + token_poll.interval]
    /\ UNCHANGED device_response
    /\ DeviceOthersUnchanged

InitDevice ==
    /\ PipelineIdle
    /\ ParseIdle
    /\ DurationIdle
    /\ FeedIdle
    /\ OffsetIdle
    /\ HookIdle
    /\ StartupIdle
    /\ BackupIdle
    /\ device_response \in DeviceResponses
    /\ token_poll = [NoTokenPoll EXCEPT !.pc = "loop", !.interval = device_response.interval]

NextDevice ==
    \/ PollHead
    \/ PollAnswer
    \/ PollSleep

(* the task is run when it is ready, a request is answered or fails (the   *)
(* session has a total timeout), and the sleep ends                        *)
DeviceFairness == WF_vars(PollHead) /\ WF_vars(PollAnswer) /\ WF_vars(PollSleep)

SpecDevice == InitDevice /\ [][NextDevice]_vars /\ DeviceFairness

----------------------------------------------------------------------------
(* Properties *)

N(j) == Len(tasks[j])
Finished(j) == jobpc[j].pc = "done"
Terminal(j) == jobs[j].status \in {"completed", "failed"}
Failing(j) == {i \in 1..N(j) : tasks[j][i].pc = "done" /\ tasks[j][i].raised}
Unresolved(j) == {i \in 1..N(j) : tasks[j][i].pc # "done"}
Succeeded(j) == {i \in 1..N(j) : tasks[j][i].pc = "done" /\ ~tasks[j][i].raised}

(* the ordinals an aggregate error names: the piece after each "File " *)
NamedOrdinals(error) ==
    {error.text[p + 1] : p \in {q \in 1..(Len(error.text) - 1) : error.text[q] = "File "}}

(* the causes with which process_m3u8_file fails before any fan-out *)
UpstreamCauses ==
    {<<"HttpError: download failed">>, <<"could not convert string to float">>,
     <<"No audio files found in M3U8 playlist">>}

(* C1: every file id that some listing has contained has exactly one job,  *)
(* and no other id has a job, whatever triggers ran and in whatever order; *)
(* the ledger holds exactly the listed ids.                                *)
C1_OneJobPerFile ==
    /\ processed_files = listed
    /\ \A f \in FileIds :
          Cardinality({j \in JobIds : jobs[j].m3u8_file_id = f})
              = IF f \in listed THEN 1 ELSE 0

(* two triggers have run their check, the ledger test has skipped an id,   *)
(* and both files have their single job                                    *)
C1_Witness ==
    /\ triggers = 2
    /\ webhooks = 0
    /\ skipped
    /\ listed = FileIds
    /\ Len(jobs) = 2

(* C2: a finished job with N >= 1 entries of which k failed: if 0 < k < N  *)
(* it is completed and its error is a non-empty text that names exactly    *)
(* the ordinals of the failing entries; if k = N it is failed.             *)
C2_PartialFailure ==
    \A j \in JobIds :
        (Finished(j) /\ N(j) >= 1) =>
            LET k == Cardinality(Failing(j)) IN
            /\ (0 < k /\ k < N(j)) =>
                  /\ jobs[j].status = "completed"
                  /\ ~jobs[j].error.isNone
                  /\ jobs[j].error.text # <<>>
                  /\ NamedOrdinals(jobs[j].error) = {ToString(i) : i \in Failing(j)}
            /\ (k = N(j)) => jobs[j].status = "failed"

(* a finished job of two entries whose second entry alone failed *)
C2_Witness ==
    \E j \in JobIds :
        /\ Finished(j)
        /\ N(j) = 2
        /\ Failing(j) = {2}
        /\ jobs[j].status = "completed"

(* C3: the results of a finished job hold one result for each entry that   *)
(* succeeded, the one its task returned, and none for an entry that failed *)
C3_ResultsAreTheSuccesses ==
    \A j \in JobIds :
        (Finished(j) /\ N(j) >= 1) =>
            /\ Len(jobs[j].processed_files) = Cardinality(Succeeded(j))
            /\ \A i \in Succeeded(j) :
                  Cardinality({p \in 1..Len(jobs[j].processed_files) :
                                  jobs[j].processed_files[p] = tasks[j][i].ret[1]}) = 1
            /\ \A i \in Failing(j) :
                  \A p \in 1..Len(jobs[j].processed_files) :
                      jobs[j].processed_files[p].uuid # tasks[j][i].entry.uuid

(* entry B's download failed after entry A had succeeded, and the job      *)
(* still returns A's result                                                *)
C3_Witness ==
    \E j \in JobIds :
        /\ Finished(j)
        /\ N(j) = 2
        /\ tasks[j][2].raised
        /\ tasks[j][2].temp_output = "none"
        /\ ~tasks[j][1].raised
        /\ jobs[j].processed_files = tasks[j][1].ret

(* C4: a finished job none of whose N >= 1 entries failed is completed     *)
(* and its error is None                                                   *)
C4_CleanCompletion ==
    \A j \in JobIds :
        (Finished(j) /\ N(j) >= 1 /\ Failing(j) = {}) =>
            /\ jobs[j].status = "completed"
            /\ jobs[j].error = None

C4_Witness ==
    \E j \in JobIds :
        /\ Finished(j)
        /\ N(j) = 2
        /\ Failing(j) = {}
        /\ Len(jobs[j].processed_files) = 2

(* C5: a job that handled a playlist download error, a parse error or an   *)
(* empty parse is failed, its error is the cause's message, completed_at   *)
(* is set, its results are empty, and it has no entry task.                *)
C5_UpstreamFailure ==
    \A j \in JobIds :
        (Finished(j) /\ jobpc[j].exc \in UpstreamCauses) =>
            /\ jobs[j].status = "failed"
            /\ jobs[j].error = Str(jobpc[j].exc)
            /\ jobs[j].completed_at # "None"
            /\ jobs[j].processed_files = <<>>
            /\ tasks[j] = <<>>

(* one job failed on a parse error, the other on a playlist without entry *)
C5_Witness ==
    \E j1, j2 \in JobIds :
        /\ Finished(j1)
        /\ Finished(j2)
        /\ jobpc[j1].exc = <<"could not convert string to float">>
        /\ jobpc[j2].exc = <<"No audio files found in M3U8 playlist">>

StatusStep(old, new) ==
    \/ new = old
    \/ old = "pending" /\ new = "processing"
    \/ old = "processing" /\ new \in {"completed", "failed"}

(* C6: a job's status is one of the four values; it only steps pending ->  *)
(* processing -> completed or failed; once completed or failed, status,    *)
(* error and results stay as they are.                                     *)
C6_StatusMachine ==
    /\ [](\A j \in JobIds : jobs[j].status \in {"pending", "processing", "completed", "failed"})
    /\ [][\A j \in JobIds :
             /\ StatusStep(jobs[j].status, jobs'[j].status)
             /\ Terminal(j) =>
                   /\ jobs'[j].status = jobs[j].status
                   /\ jobs'[j].error = jobs[j].error
                   /\ jobs'[j].processed_files = jobs[j].processed_files]_vars

(* both jobs are through: one completed with a partial error, one failed *)
C6_Witness ==
    \E j1, j2 \in JobIds :
        /\ Finished(j1)
        /\ Finished(j2)
        /\ jobs[j1].status = "completed"
        /\ ~jobs[j1].error.isNone
        /\ jobs[j2].status = "failed"

(* C7: a job that is completed or failed has no unresolved entry task, and *)
(* a job one of whose entries has failed while another is unresolved is    *)
(* still processing.                                                       *)
C7_JoinWaitsForAll ==
    \A j \in JobIds :
        /\ Terminal(j) => Unresolved(j) = {}
        /\ (Failing(j) # {} /\ Unresolved(j) # {}) => jobs[j].status = "processing"

(* the first task to resolve failed, a sibling succeeded after it, and     *)
(* only then was the job finalized                                         *)
C7_Witness ==
    \E j \in JobIds :
        /\ Terminal(j)
        /\ N(j) = 2
        /\ tasks[j][doneOrder[j][1]].raised
        /\ ~tasks[j][doneOrder[j][2]].raised

(* C8: completed_at is assigned at most once, is set exactly when it has   *)
(* been assigned, has been assigned once the job is through, and for a job *)
(* with entry tasks only after all of them resolved.                       *)
C8_StampedOnce ==
    \A j \in JobIds :
        /\ stampWrites[j] <= 1
        /\ (jobs[j].completed_at # "None") <=> (stampWrites[j] = 1)
        /\ Finished(j) => stampWrites[j] = 1
        /\ (stampWrites[j] >= 1 /\ N(j) >= 1) => Unresolved(j) = {}

C8_Witness ==
    \E j \in JobIds :
        /\ Finished(j)
        /\ N(j) = 2
        /\ stampWrites[j] = 1
        /\ jobs[j].completed_at = "now"

(* the results of the successful tasks, in the order the tasks completed *)
RECURSIVE InCompletionOrder(_, _)
InCompletionOrder(j, order) ==
    IF order = <<>> THEN <<>>
    ELSE tasks[j][Head(order)].ret \o InCompletionOrder(j, Tail(order))

(* C9 as claimed: the results of a finished job are in the order in which  *)
(* its entry tasks completed.                                              *)
C9_CompletionOrder ==
    \A j \in JobIds :
        (Finished(j) /\ N(j) >= 1) =>
            jobs[j].processed_files = InCompletionOrder(j, doneOrder[j])

(* C9 amended: the results of a finished job are in submission (playlist)  *)
(* order, whatever order the entry tasks completed in.                     *)
C9_SubmissionOrder ==
    \A j \in JobIds :
        (Finished(j) /\ N(j) >= 1) =>
            \A p, q \in 1..Len(jobs[j].processed_files) :
                p < q => jobs[j].processed_files[p].uuid[2] < jobs[j].processed_files[q].uuid[2]

(* both entries succeeded and the second completed first *)
C9_Witness ==
    \E j \in JobIds :
        /\ Finished(j)
        /\ doneOrder[j] = <<2, 1>>
        /\ Len(jobs[j].processed_files) = 2

(* C10 as claimed: when a run of process_audio_file has ended, its         *)
(* transient input file does not exist.                                    *)
C10_InputDeleted ==
    \A j \in JobIds : \A i \in 1..N(j) :
        tasks[j][i].pc = "done" => tasks[j][i].temp_input # "exists"

(* C11 as claimed: the transformed output file of an entry is not deleted  *)
(* before its Drive upload has succeeded, and once the entry has been      *)
(* abandoned (its run ended with an exception) the file no longer exists.  *)
C11_OutputLifecycle ==
    \A j \in JobIds : \A i \in 1..N(j) :
        /\ tasks[j][i].temp_output = "deleted" => tasks[j][i].uploaded
        /\ (tasks[j][i].pc = "done" /\ tasks[j][i].raised) =>
               tasks[j][i].temp_output # "exists"

----------------------------------------------------------------------------
(* Properties of parse_m3u8 (SpecParse) *)

(* the text s without the blanks around it *)
Trimmed(s) ==
    LET inked == {k \in 1..Len(s) : s[k] # " "}
    IN  IF inked = {} THEN <<>>
        ELSE SubSeq(s, CHOOSE k \in inked : \A m \in inked : k <= m,
                       CHOOSE k \in inked : \A m \in inked : m <= k)

(* a decimal number: digits with at most one dot, and at least one digit *)
DecimalNumber(dur) ==
    /\ dur # <<>>
    /\ \A k \in 1..Len(dur) : dur[k] \in Digits \cup {"."}
    /\ Cardinality({k \in 1..Len(dur) : dur[k] = "."}) <= 1
    /\ \E k \in 1..Len(dur) : dur[k] \in Digits

(* a line "#EXTINF:<duration>,<title>" *)
MetadataLine(line) ==
    /\ line.kind = "extinf"
    /\ DecimalNumber(line.dur)
    /\ Trimmed(line.title) # <<>>

(* a line "#EXTINF:..." whose duration field is not a decimal number *)
InvalidDurationLine(line) ==
    /\ line.kind = "extinf"
    /\ ~DecimalNumber(line.dur)

(* a line that is not blank and does not start with '#' *)
ValidLocator(line) ==
    /\ line.kind = "other"
    /\ Trimmed(line.text) # <<>>
    /\ Trimmed(line.text)[1] # "#"

(* the positions of the metadata lines immediately followed by a locator *)
PairStarts(lines) ==
    {k \in 1..(Len(lines) - 1) : MetadataLine(lines[k]) /\ ValidLocator(lines[k + 1])}

(* the i-th smallest member of the set of numbers S *)
Ith(S, i) == CHOOSE k \in S : Cardinality({m \in S : m < k}) = i - 1

(* the entry of the pair that starts at line k *)
PairEntry(lines, k) ==
    [title |-> Trimmed(lines[k].title), duration |-> FloatOf(lines[k].dur),
     url |-> Trimmed(lines[k + 1].text)]

WithoutUuid(e) == [title |-> e.title, duration |-> e.duration, url |-> e.url]

(* the pairs of a text, in the order of the text *)
ExpectedEntries(lines) ==
    [i \in 1..Cardinality(PairStarts(lines)) |-> PairEntry(lines, Ith(PairStarts(lines), i))]

ReturnedEntries ==
    [i \in 1..Len(parse_result.entries) |-> WithoutUuid(parse_result.entries[i])]

(* C12: whenever parse_m3u8 returns, its i-th entry carries the duration,  *)
(* the trimmed title and the locator of the i-th metadata line that is     *)
(* immediately followed by a valid locator line, and there is no other     *)
(* entry: no other line contributes one.                                   *)
C12_OrderPreserving ==
    (parse_result.called /\ ~parse_result.raised) =>
        LET P == PairStarts(m3u8_content)
        IN  /\ Len(parse_result.entries) = Cardinality(P)
            /\ \A i \in 1..Len(parse_result.entries) :
                  WithoutUuid(parse_result.entries[i]) = PairEntry(m3u8_content, Ith(P, i))

(* two pairs were parsed, the first with a padded title and a padded       *)
(* locator, and both entries came back in the order of the text            *)
C12_Witness ==
    /\ parse_result.called
    /\ ~parse_result.raised
    /\ Len(m3u8_content) = 4
    /\ m3u8_content[1].title = <<" ", "B">>
    /\ Len(parse_result.entries) = 2
    /\ parse_result.entries[1].title = <<"B">>
    /\ parse_result.entries[1].url = <<"http://x/b.mp3">>
    /\ parse_result.entries[2].title = <<"A">>

(* C13 as claimed: when the text has a metadata line whose duration field  *)
(* is not a decimal number, parse_m3u8 does not raise and returns exactly  *)
(* the pairs of the valid metadata lines: the line is skipped alone and    *)
(* the line after it is not taken as its locator.                          *)
C13_InvalidDurationSkipped ==
    (/\ parse_result.called
     /\ \E k \in 1..Len(m3u8_content) : InvalidDurationLine(m3u8_content[k])) =>
        /\ ~parse_result.raised
        /\ ReturnedEntries = ExpectedEntries(m3u8_content)

(* the text without its line k *)
WithoutLine(lines, k) == SubSeq(lines, 1, k - 1) \o SubSeq(lines, k + 1, Len(lines))

(* line k is a metadata line and no locator follows it: the next line is   *)
(* missing, blank, or starts with '#'                                      *)
Dangling(lines, k) ==
    /\ MetadataLine(lines[k])
    /\ (k = Len(lines) \/ ~ValidLocator(lines[k + 1]))

(* C14: a metadata line that no locator follows raises nothing (the call   *)
(* raises only when some line has an invalid duration) and gives no entry: *)
(* the entries are those of the text without that line, so the scan went   *)
(* on at the next line; when that next line is a metadata line with a      *)
(* locator after it, its entry is among the returned ones.                 *)
C14_DanglingMetadataDropped ==
    parse_result.called =>
        \A k \in 1..Len(m3u8_content) :
            Dangling(m3u8_content, k) =>
                /\ parse_result.raised =>
                      \E m \in 1..Len(m3u8_content) : InvalidDurationLine(m3u8_content[m])
                /\ ~parse_result.raised =>
                      /\ ReturnedEntries = ExpectedEntries(WithoutLine(m3u8_content, k))
                      /\ (k + 1 \in PairStarts(m3u8_content)) =>
                            \E i \in 1..Len(parse_result.entries) :
                                ReturnedEntries[i] = PairEntry(m3u8_content, k + 1)

(* a metadata line directly followed by a second metadata line and its     *)
(* locator: the call returned the second pair                              *)
C14_Witness ==
    /\ parse_result.called
    /\ ~parse_result.raised
    /\ Len(m3u8_content) >= 3
    /\ Dangling(m3u8_content, 1)
    /\ 2 \in PairStarts(m3u8_content)
    /\ Len(parse_result.entries) = 1
    /\ parse_result.entries[1].title = Trimmed(m3u8_content[2].title)

----------------------------------------------------------------------------
(* Properties of the new duration (SpecDuration) *)

(* C15: for a duration d >= 0 and a speed s > 0 the new duration n is      *)
(* floor(d / s), that is n <= d / s < n + 1; at s = 1.5 the durations 180  *)
(* and 240 give 120 and 160.                                               *)
C15_NewDurationIsFloor ==
    result_new_duration # -1 =>
        LET d == entry_duration
            s == job_speed
            n == result_new_duration
        IN  /\ n * s.num * d.den <= d.num * s.den
            /\ d.num * s.den < (n + 1) * s.num * d.den
            /\ (2 * s.num = 3 * s.den /\ d.num = 180 * d.den) => n = 120
            /\ (2 * s.num = 3 * s.den /\ d.num = 240 * d.den) => n = 160

(* the duration 180.0 of the test playlist at the default speed *)
C15_Witness ==
    /\ result_new_duration = 120
    /\ entry_duration = FloatOf(Dur(1))
    /\ job_speed = DEFAULT_SPEED

----------------------------------------------------------------------------
(* Properties of the feed synthesis (SpecFeed) *)

(* C16 as claimed: after a synthesis the feed starts with the items the    *)
(* prior feed had, in their order; the new items follow.                   *)
C16_PriorItemsKept ==
    merges >= 1 =>
        /\ Len(rss_feed) >= Len(prior_feed)
        /\ SubSeq(rss_feed, 1, Len(prior_feed)) = prior_feed

(* C17 as claimed: no two items of the feed document have the same guid.   *)
C17_GuidsUnique ==
    \A p, q \in 1..Len(rss_feed) : p # q => rss_feed[p].guid # rss_feed[q].guid

(* C18 as claimed: when a result's uuid is the guid of an item of the      *)
(* prior feed, the feed after the synthesis has that item unchanged and    *)
(* no other item with that guid.                                           *)
C18_FirstWriteWins ==
    merges >= 1 =>
        \A k \in 1..Len(prior_feed) :
            (\E i \in 1..Len(feed_results) :
                /\ ~feed_results[i].uuid.isNone
                /\ feed_results[i].uuid.text = prior_feed[k].guid) =>
                    LET same == {m \in 1..Len(rss_feed) : rss_feed[m].guid = prior_feed[k].guid}
                    IN  /\ Cardinality(same) = 1
                        /\ \A m \in same : rss_feed[m] = prior_feed[k]

(* C19 as claimed: after the same results have been merged a second time   *)
(* the feed has the items it had after the first merge, and no guid twice. *)
C19_MergeIdempotent ==
    merges = 2 =>
        /\ rss_feed = prior_feed
        /\ Cardinality({rss_feed[m].guid : m \in 1..Len(rss_feed)}) = Len(rss_feed)

----------------------------------------------------------------------------
(* Properties of the pipeline (Spec), continued *)

(* C20: whenever a job's status is terminal, it is completed exactly when  *)
(* the job's results are non-empty and failed exactly when they are empty. *)
C20_StatusTellsUsable ==
    \A j \in JobIds :
        Terminal(j) =>
            /\ jobs[j].status = "completed" <=> jobs[j].processed_files # <<>>
            /\ jobs[j].status = "failed" <=> jobs[j].processed_files = <<>>

(* a job that ended completed with one entry failed and one succeeded *)
C20_Witness ==
    \E j \in JobIds :
        /\ Finished(j)
        /\ jobs[j].status = "completed"
        /\ Failing(j) # {}
        /\ Len(jobs[j].processed_files) = 1

(* C21: a failure stays inside the job or the check it happened in.  A     *)
(* job coroutine that does not hold the event loop is waiting to start,    *)
(* suspended at its join, or over; once over, the job is terminal, and     *)
(* failed with an error when the upstream steps failed or no entry         *)
(* succeeded.  Whatever jobs have failed, a trigger that arrives while     *)
(* the loop is free still admits every playlist not yet in the ledger,     *)
(* and every admitted job can still start.                                 *)
C21_FailureContained ==
    /\ \A j \in JobIds :
         /\ running # j => jobpc[j].pc \in {"scheduled", "gather", "done"}
         /\ Finished(j) => Terminal(j)
         /\ Finished(j) /\ Succeeded(j) = {} =>
                jobs[j].status = "failed" /\ ~jobs[j].error.isNone
         /\ running = 0 /\ jobpc[j].pc = "scheduled" => ENABLED JobBegin(j)
    /\ running = 0 /\ triggers < MaxTriggers =>
         \A f \in FileIds \ processed_files :
            /\ ENABLED (ManualCheck /\ f \in processed_files' /\ Len(jobs') > Len(jobs))
            /\ ENABLED (PollCheck /\ f \in processed_files' /\ Len(jobs') > Len(jobs))

(* the first job has failed and is over, and the job of another playlist,  *)
(* admitted beside or after it, has run to completed                       *)
C21_Witness ==
    /\ Len(jobs) = 2
    /\ Finished(1) /\ jobs[1].status = "failed" /\ ~jobs[1].error.isNone
    /\ Finished(2) /\ jobs[2].status = "completed"
    /\ jobs[2].processed_files # <<>>

(* C22: the ledger only grows, and a job is never in the job table, nor    *)
(* its task scheduled, without its playlist id in the ledger: no step      *)
(* removes an id from processed_files, and after every step each job of    *)
(* the table, each with its scheduled coroutine, has its id in the ledger. *)
C22_LedgerBeforeFanOut ==
    [][/\ processed_files \subseteq processed_files'
       /\ Len(jobpc') = Len(jobs')
       /\ \A j \in 1..Len(jobs') : jobs'[j].m3u8_file_id \in processed_files']_vars

(* the first job is over, its id is still in the ledger, and a second job  *)
(* has just been admitted with its id in the ledger and its task scheduled *)
C22_Witness ==
    /\ Len(jobs) = 2
    /\ Finished(1) /\ jobs[1].m3u8_file_id \in processed_files
    /\ jobpc[2].pc = "scheduled" /\ jobs[2].m3u8_file_id \in processed_files
    /\ jobs[1].m3u8_file_id # jobs[2].m3u8_file_id

(* the job ids the table can hold: one per playlist file *)
JobSlots == 1..Cardinality(FileIds)

(* C23: no job stays in processing forever: a job that is processing is    *)
(* eventually finalized (completed, or failed by the job deadline), even   *)
(* when one of its entry tasks never resolves.                             *)
C23_DeadlineFinalizes ==
    \A j \in JobSlots :
        (j \in JobIds /\ jobs[j].status = "processing")
            ~> (j \in JobIds /\ Terminal(j))

(* the entry task is waiting on its download, its transform run or its     *)
(* storage upload                                                          *)
Waiting(j, i) == tasks[j][i].pc \in {"download", "ffmpeg", "upload"}

(* the event loop is held by some other coroutine than this entry task *)
HeldByOther(j, i) == running # 0 /\ tasks[j][i].pc = "download"

(* C24: every call an entry waits on is a suspension point: while an entry *)
(* task waits on its download, its transform run or its upload (and no     *)
(* other coroutine is in the middle of a step), every created entry task   *)
(* of the job can start, every pushed entry can have its answer delivered  *)
(* and a trigger that arrives can run its check.                           *)
C24_EveryCallSuspends ==
    \A j \in JobIds : \A i \in 1..N(j) :
        Waiting(j, i) /\ ~HeldByOther(j, i) =>
            /\ \A k \in 1..N(j) : tasks[j][k].pc = "created" => ENABLED TaskStart(j, k)
            /\ \A k \in 1..N(j) : tasks[j][k].pc = "push" => ENABLED PushDone(j, k)
            /\ triggers < MaxTriggers => ENABLED ManualCheck

(* C25: a job becomes processing in the same step of the event loop in     *)
(* which its entry tasks are created.  A pending job has no entry task;    *)
(* and in every state in which the job's coroutine does not hold the loop  *)
(* (every state another coroutine can see), a processing job is suspended  *)
(* at its join with its entry tasks created.                               *)
C25_ProcessingWithFanOut ==
    \A j \in JobIds :
        /\ jobs[j].status = "pending" => tasks[j] = <<>> /\ jobpc[j].pc = "scheduled"
        /\ jobs[j].status = "processing" /\ running # j =>
               jobpc[j].pc = "gather" /\ N(j) >= 1

(* the loop is free just after a fan-out: the job is processing with two   *)
(* entry tasks created and none started, beside a job that is still        *)
(* pending and has no task                                                 *)
C25_Witness ==
    \E j, k \in JobIds :
        /\ running = 0
        /\ jobs[j].status = "processing" /\ N(j) = 2
        /\ \A i \in 1..N(j) : tasks[j][i].pc = "created"
        /\ jobs[k].status = "pending" /\ tasks[k] = <<>>

(* the pieces of run occur in text, contiguous and in order *)
HasRun(text, run) ==
    \E p \in 1..(Len(text) - Len(run) + 1) : SubSeq(text, p, p + Len(run) - 1) = run

(* C26: an entry whose transform run exited with a non-zero code has       *)
(* failed there: its task ended with the exception, nothing was uploaded   *)
(* or pushed and it returned no result; once the job is over, no result of *)
(* the job is that entry's, and the job's aggregate error holds the tool's *)
(* diagnostic output under the entry's ordinal.                            *)
C26_ToolFailureReported ==
    \A j \in JobIds : \A i \in 1..N(j) :
        tasks[j][i].returncode > 0 =>
            /\ tasks[j][i].pc = "done" /\ tasks[j][i].raised
            /\ ~tasks[j][i].uploaded
            /\ tasks[j][i].ret = <<>>
            /\ Finished(j) =>
                 /\ \A r \in Range(jobs[j].processed_files) :
                        r.uuid # tasks[j][i].entry.uuid
                 /\ ~jobs[j].error.isNone
                 /\ HasRun(jobs[j].error.text,
                           <<"File ", ToString(i), ": ", "FFmpeg error: ", "stderr">>)

(* a finished job whose second entry failed in the transform run while the *)
(* first entry succeeded                                                   *)
C26_Witness ==
    \E j \in JobIds :
        /\ Finished(j) /\ N(j) = 2
        /\ tasks[j][2].returncode > 0
        /\ ~tasks[j][1].raised
        /\ Len(jobs[j].processed_files) = 1

(* C27: a notification attempt leaves the job as it found it.  In the step *)
(* that makes the attempt, whether the message is skipped for want of      *)
(* configuration, sent, or lost to an SMTP error, the call returns         *)
(* normally: the coroutine ends, and the job's status, error and results   *)
(* are what they were before the step and completed_at is the stamp set    *)
(* just before the call.                                                   *)
C27_NotificationBestEffort ==
    [][\A j \in JobIds :
          notification' # notification /\ notification'.job = j =>
              /\ jobpc'[j].pc = "done"
              /\ running' = 0
              /\ jobs'[j] = [jobs[j] EXCEPT !.completed_at = "now"]
              /\ notification'.outcome \in {"skipped", "smtp_error"} =>
                     /\ jobs'[j].status = jobs[j].status
                     /\ jobs'[j].error = jobs[j].error
                     /\ jobs'[j].processed_files = jobs[j].processed_files]_vars

(* sending raised for a job that had completed without errors: the job is  *)
(* over and still completed, without an error                              *)
C27_Witness ==
    \E j \in JobIds :
        /\ notification = [job |-> j, outcome |-> "smtp_error"]
        /\ Finished(j)
        /\ jobs[j].status = "completed" /\ jobs[j].error.isNone
        /\ jobs[j].processed_files # <<>>
        /\ jobs[j].completed_at = "now"

(* C30: in every state in which no coroutine is in the middle of a step    *)
(* (the states a status request or another coroutine can see), a job has   *)
(* completed_at set exactly when its status is completed or failed, and a  *)
(* failed job has an error that is not empty.                              *)
C30_StampedIffTerminal ==
    running = 0 =>
        \A j \in JobIds :
            /\ jobs[j].completed_at # "None" <=> Terminal(j)
            /\ jobs[j].status = "failed" =>
                   ~jobs[j].error.isNone /\ jobs[j].error.text # <<>>

(* the loop is free with a failed job, stamped and carrying its error,     *)
(* beside a processing job that has no completed_at                        *)
C30_Witness ==
    /\ running = 0
    /\ \E j, k \in JobIds :
         /\ jobs[j].status = "failed" /\ jobs[j].completed_at = "now"
         /\ ~jobs[j].error.isNone
         /\ jobs[k].status = "processing" /\ jobs[k].completed_at = "None"
         /\ \E i \in 1..N(k) : tasks[k][i].pc = "download"

(* the progress rows whose composite key is exactly key *)
RowsFor(key) ==
    {k \in 1..Len(progress_data) :
        progress_data[k].podcast \o <<" - ">> \o progress_data[k].episode = key}

(* C28: after _update_episode_map an entry that was in the map before the  *)
(* call carries an offset exactly when some progress row has the composite *)
(* key "<podcast> - <episode>" equal to the entry's key: then it is the    *)
(* offset of the last such row and the entry's other fields are kept; an   *)
(* entry without such a row is as it was.  The call always returns: a row  *)
(* that matches no entry makes an entry of its own.                        *)
C28_OffsetByCompositeKey ==
    offsets_done =>
        /\ \A key \in DOMAIN ep_map_before :
             /\ key \in DOMAIN ep_map
             /\ "offset" \in DOMAIN ep_map[key] <=> RowsFor(key) # {}
             /\ RowsFor(key) = {} => ep_map[key] = ep_map_before[key]
             /\ RowsFor(key) # {} =>
                  /\ \E k \in RowsFor(key) :
                        /\ \A n \in RowsFor(key) : n <= k
                        /\ ep_map[key]["offset"] = progress_data[k].offset
                  /\ \A x \in DOMAIN ep_map_before[key] :
                        ep_map[key][x] = ep_map_before[key][x]
        /\ \A k \in 1..Len(progress_data) :
             \E key \in DOMAIN ep_map : k \in RowsFor(key)

(* the call has returned on a map with a matched entry, an entry whose key *)
(* is the bare episode title of a row, and a row that matched no entry     *)
C28_Witness ==
    /\ offsets_done
    /\ <<"P", " - ", "E1">> \in DOMAIN ep_map_before
    /\ RowsFor(<<"P", " - ", "E1">>) # {}
    /\ <<"E1">> \in DOMAIN ep_map_before
    /\ "offset" \notin DOMAIN ep_map[<<"E1">>]
    /\ \E k \in 1..Len(progress_data) :
          progress_data[k].podcast \o <<" - ">> \o progress_data[k].episode
              \notin DOMAIN ep_map_before

(* every result of the run has been uploaded and has its drive_file_id *)
AllUploaded == \A k \in 1..Len(feed_results) : feed_results[k].drive_file_id # <<>>

(* C29: the feed is written only at the end of a run all of whose results  *)
(* have been uploaded and carry their drive_file_id: a step that writes    *)
(* the feed finds at least one result and no result without id, and the    *)
(* feed it writes has one item per result, each with the download URL of   *)
(* the result's id.  A run without results, or in which an upload failed,  *)
(* has stopped at once and the feed in storage is the one the run found.   *)
C29_FeedAfterUploads ==
    [][/\ (merges' # merges \/ rss_feed' # rss_feed) =>
             /\ feed_results # <<>>
             /\ AllUploaded
             /\ workflow.next > Len(feed_results)
             /\ Len(rss_feed') = Len(feed_results)
             /\ \A k \in 1..Len(feed_results) :
                   rss_feed'[k].url = generate_download_url(feed_results[k].drive_file_id)
       /\ (workflow'.pc # "start" /\ (feed_results' = <<>> \/ workflow'.upload_failed)) =>
             /\ workflow'.pc = "stopped"
             /\ merges' = 0
             /\ rss_feed' = prior_feed']_vars

(* a run over two results has written a feed of two items over a stored    *)
(* feed of one                                                             *)
C29_Witness ==
    /\ workflow.pc = "done"
    /\ Len(feed_results) = 2 /\ AllUploaded
    /\ Len(prior_feed) = 1
    /\ Len(rss_feed) = 2 /\ merges = 1

(* a run has stopped at the failed upload of its second result: the first  *)
(* result has its id and the stored feed is untouched                      *)
C29_StoppedWitness ==
    /\ workflow.pc = "stopped" /\ workflow.upload_failed /\ workflow.next = 2
    /\ feed_results[1].drive_file_id # <<>>
    /\ rss_feed = prior_feed /\ Len(rss_feed) = 1

(* C31: when the event loop runs every ready coroutine and every entry     *)
(* task resolves, every admitted job comes to its end with status          *)
(* completed or failed: none stays pending or processing for ever.         *)
C31_EveryJobEnds ==
    \A j \in JobSlots :
        (j \in JobIds) ~> (j \in JobIds /\ Finished(j) /\ Terminal(j))

(* two jobs admitted by one check are both over, one of them after a       *)
(* fan-out of two entries of which one failed                              *)
C31_Witness ==
    /\ Len(jobs) = 2
    /\ \A j \in JobIds : Finished(j) /\ Terminal(j)
    /\ \E j \in JobIds : N(j) = 2 /\ Failing(j) # {} /\ Succeeded(j) # {}

(* C32: a failed playlist is never retried.  Whenever a job has failed,    *)
(* its playlist id is in the ledger and no other job of the table, created *)
(* before or after it by any trigger, is for the same playlist.            *)
C32_FailedNeverRetried ==
    \A j \in JobIds :
        jobs[j].status = "failed" =>
            /\ jobs[j].m3u8_file_id \in processed_files
            /\ \A k \in JobIds :
                  k # j => jobs[k].m3u8_file_id # jobs[j].m3u8_file_id

(* the only job has failed and is over, every trigger has been used and a  *)
(* check has met the playlist again and skipped it                         *)
C32_Witness ==
    /\ Len(jobs) = 1
    /\ Finished(1) /\ jobs[1].status = "failed"
    /\ triggers = MaxTriggers /\ webhooks = 0
    /\ skipped
    /\ listed = {jobs[1].m3u8_file_id}

(* where an entry task can go from where it is: the download, then the     *)
(* transform run, the upload and the push, or its end from any of them     *)
StepOrder ==
    {<<"created", "download">>,
     <<"download", "ffmpeg">>, <<"download", "done">>,
     <<"ffmpeg", "upload">>, <<"ffmpeg", "done">>,
     <<"upload", "push">>, <<"upload", "done">>,
     <<"push", "done">>}

(* C33: one run of process_audio_file takes its steps in the order         *)
(* download, transform, upload, push, cleanup, each at most once and only  *)
(* after every earlier one succeeded.  Every step of an entry task moves   *)
(* it forward along that order; the transform run is entered with nothing  *)
(* uploaded, the upload after exit code 0, the push after the upload; the  *)
(* temp files are deleted and a result is returned only in the step that   *)
(* ends a push, and a task that raised has neither.                        *)
C33_StepsInOrder ==
    [][\A j \in JobIds : \A i \in 1..Len(tasks[j]) :
          tasks'[j][i] # tasks[j][i] =>
              /\ <<tasks[j][i].pc, tasks'[j][i].pc>> \in StepOrder
              /\ tasks'[j][i].pc = "ffmpeg" =>
                     tasks'[j][i].returncode = -1 /\ ~tasks'[j][i].uploaded
              /\ tasks'[j][i].pc = "upload" =>
                     tasks'[j][i].returncode = 0 /\ ~tasks'[j][i].uploaded
              /\ tasks'[j][i].pc = "push" =>
                     tasks'[j][i].returncode = 0 /\ tasks'[j][i].uploaded
              /\ tasks'[j][i].ret # <<>> =>
                     /\ tasks[j][i].pc = "push" /\ tasks'[j][i].pc = "done"
                     /\ ~tasks'[j][i].raised /\ tasks'[j][i].uploaded
                     /\ tasks'[j][i].temp_input = "deleted"
                     /\ tasks'[j][i].temp_output = "deleted"
              /\ "deleted" \in {tasks'[j][i].temp_input, tasks'[j][i].temp_output} =>
                     tasks'[j][i].ret # <<>>
              /\ tasks'[j][i].raised =>
                     tasks'[j][i].pc = "done" /\ tasks'[j][i].ret = <<>>]_vars

(* in one job an entry has gone through every step and returned its       *)
(* result, and the other has ended in its transform run                    *)
C33_Witness ==
    \E j \in JobIds :
        /\ N(j) = 2
        /\ tasks[j][1].pc = "done" /\ tasks[j][1].ret # <<>>
        /\ tasks[j][1].temp_output = "deleted"
        /\ tasks[j][2].pc = "done" /\ tasks[j][2].returncode > 0

NoToken == <<"No Playrun token available">>

C35_WrongTokenChangesNothing ==
    [][ /\ (/\ drive_notification'.n # drive_notification.n
            /\ drive_notification'.signature # WebhookSecret)
           => /\ drive_notification'.response = "error"
              /\ UNCHANGED <<processed_files, jobs, jobpc, tasks, doneOrder, stampWrites,
                             listed, skipped, webhooks, running>>
        /\ webhooks' > webhooks
           => /\ drive_notification'.n # drive_notification.n
              /\ drive_notification'.signature = WebhookSecret
        /\ (processed_files' # processed_files \/ Len(jobs') # Len(jobs) \/ listed' # listed)
           => /\ webhooks > 0 /\ webhooks' = webhooks - 1
              /\ drive_notification'.n = drive_notification.n
      ]_vars

(* a notification with a wrong token has been answered with an error when  *)
(* a job was already in the table                                          *)
C35_Witness ==
    /\ drive_notification.n = 2
    /\ drive_notification.signature = "wrong"
    /\ drive_notification.response = "error"
    /\ webhooks = 0
    /\ jobs # <<>>

(* the webhook is not established: no WEBHOOK_URL, or the Pub/Sub or the   *)
(* webhook setup raised                                                    *)
NotEstablished ==
    \/ ~startup.url
    \/ startup.pubsub = "raised"
    \/ startup.hook = "raised"

(* C36: when initialize has returned, a channel is registered unless the   *)
(* webhook was not established, exactly one polling task has been created  *)
(* if it was not and none if it was; never more than one is created, and   *)
(* none when initialize raised.  Once created, the polling task makes      *)
(* check after check for ever, whatever the listings do.                   *)
C36_PollingIffNoWebhook ==
    /\ [](init_result = "done" =>
             /\ (notification_channels = 0) <=> NotEstablished
             /\ polling_tasks = IF NotEstablished THEN 1 ELSE 0)
    /\ [](polling_tasks <= 1 /\ (poll_pc # "none" <=> polling_tasks = 1))
    /\ [](init_result # "done" => polling_tasks = 0)
    /\ \A k \in 0..(ChecksMod - 1) :
          (polling_tasks = 1 /\ checks = k) ~> (checks = (k + 1) % ChecksMod)

(* the webhook setup raised, one polling task was created, and it sleeps   *)
(* after its second check, which has found a playlist                      *)
C36_Witness ==
    /\ init_result = "done"
    /\ startup.url /\ startup.pubsub = "ok" /\ startup.hook = "raised"
    /\ polling_tasks = 1
    /\ poll_pc = "sleeping"
    /\ checks = 2
    /\ jobs # <<>>

(* C37: when add_listening_progress has returned or raised, neither the    *)
(* downloaded backup file nor the extraction directory is on disk.         *)
C37_NothingLeftBehind ==
    backup_call.pc \in {"returned", "raised"} =>
        /\ backup_fs.file = "absent"
        /\ backup_fs.dir = "absent"

PollEnded == token_poll.pc \in {"returned", "raised", "timeout"}

(* C38: every run of the token polling loop ends, in one of three ways:    *)
(* it returns on the first HTTP 200; it raises on the first answer that is *)
(* neither a 200 nor authorization_pending nor slow_down (a request that   *)
(* fails included); or it raises TimeoutError at the head of the loop,     *)
(* when more than expires_in seconds have gone by.  Until then every       *)
(* answer was authorization_pending or slow_down.  After the end no        *)
(* request is sent.  The interval never decreases: it grows by 5 on each   *)
(* slow_down and is otherwise left alone.                                  *)
C38_PollEndsOneWay ==
    /\ <>PollEnded
    /\ [](/\ token_poll.pc \in {"loop", "request", "sleep"}
             => token_poll.seen \subseteq KeepPolling
          /\ token_poll.pc = "returned"
             => token_poll.last = "200" /\ token_poll.seen \ {"200"} \subseteq KeepPolling
          /\ token_poll.pc = "raised"
             => /\ token_poll.last \notin KeepPolling \cup {"200"}
                /\ token_poll.seen \ {token_poll.last} \subseteq KeepPolling
          /\ token_poll.pc = "timeout"
             => /\ token_poll.elapsed > device_response.expires_in
                /\ token_poll.seen \subseteq KeepPolling)
    /\ [][/\ PollEnded => token_poll' = token_poll
          /\ (token_poll.pc = "loop" /\ token_poll.elapsed > device_response.expires_in)
             => token_poll'.pc = "timeout" /\ token_poll'.requests = token_poll.requests
          /\ token_poll'.interval >= token_poll.interval
          /\ token_poll'.interval =
                IF token_poll.pc = "request" /\ token_poll'.last = "slow_down"
                THEN token_poll.interval + SlowDownStep
                ELSE token_poll.interval
         ]_vars

(* a run has ended with TimeoutError after two slow_down answers, its      *)
(* interval ten seconds longer than the device response gave               *)
C38_Witness ==
    /\ token_poll.pc = "timeout"
    /\ token_poll.seen = {"slow_down"}
    /\ token_poll.requests = 2
    /\ token_poll.interval = device_response.interval + 2 * SlowDownStep

====
